---- MODULE Spec2Model ----
(***************************************************************************)
(* A model of the Bunpu engine: distributions (core/dist.ts), the reducer  *)
(* (core/reducer.ts), the formula evaluator (engine/evaluator.ts) and the  *)
(* reactive graph (engine/graph.ts).                                       *)
(*                                                                         *)
(* JavaScript numbers are modelled as exact rationals <<n, d>> in lowest   *)
(* terms with d > 0; <<1, 0>> and <<-1, 0>> stand for +Infinity and        *)
(* -Infinity.  Strings that the code scans character by character (raw     *)
(* inputs) are sequences of one-character strings.                         *)
(*                                                                         *)
(* The WebAssembly replacements of Dist.add, scale, mix and mean are null  *)
(* until a worker installs them; the model follows the JavaScript bodies.  *)
(* Of parseFunctionCall the functions CONFIG, CONST, UNIFORM, NORMAL,      *)
(* DISCRETE, ADD, CONVOLVE, MUL, DIV, BIN, SCALE, MIX, REDUCE, MEAN, REF,  *)
(* SUB, SHIFT, CHOICE, BINOMIAL, GEOM_SUM and REPEAT_ADD are modelled.     *)
(***************************************************************************)
EXTENDS Integers, Sequences, FiniteSets, TLC

VARIABLES
    rdIn,       \* reducer: the Dist handed to reduce() (its components)
    rdParams,   \* reducer: the ReduceParams of the call
    rdOrig,     \* reducer: a copy of the Dist as it was when reduce() was called
    rdOut,      \* reducer: the Dist that reduce() returned
    rdDone,     \* reducer: reduce() has returned
    evInput,    \* evaluator: the raw input of the cell being evaluated
    evCtx,      \* evaluator: ctx.maxComponents and the Dist of every cell
    evOut,      \* evaluator: what evaluate() returned or threw
    evDone,     \* evaluator: evaluate() has ended
    cells,      \* graph: Graph.cells, a function from identifiers to cells
    cellOrder,  \* graph: the insertion order of Graph.cells
    share,      \* graph: for each cell, the cells holding the same Dist object
    dirtyTrack, \* graph: Graph.dirtyTrack
    config,     \* graph: Graph.config
    tasks,      \* graph: the recalculations suspended at their await, oldest first
    evals,      \* history: the evaluateCell calls of the last operation
    done,       \* history: the recalculation that ended with the last operation
    changed,    \* history: the cells whose input set_input has changed
    notes,      \* history: the steps of recalculate in the last operation
    nOps,       \* the number of inputs and loads since the initial state
    drained,    \* history: what getDirtyAndClear found and returned, if the
                \* last operation was one
    nTimers,    \* the number of timer callbacks that have resumed a recalculation
    rgStart,    \* ranges: the first identifier handed to expandRange()
    rgEnd,      \* ranges: the second identifier handed to expandRange()
    rgOut,      \* ranges: what expandRange() returned or threw
    rgDone,     \* ranges: expandRange() has ended
    mirror,     \* client: the cells of the WorkerClient, by identifier
    toWorker,   \* the messages posted to the worker and not yet handled
    toClient,   \* the messages posted by the worker and not yet handled
    awaited,    \* history: the cells that a setCellInput of the client has
                \* marked evaluating and that no UPDATE_CELLS handled since
                \* has given another status
    nCalls      \* the number of calls made on the WorkerClient

rvars == <<rdIn, rdParams, rdOrig, rdOut, rdDone>>
evars == <<evInput, evCtx, evOut, evDone>>
gvars == <<cells, cellOrder, share, dirtyTrack, config, tasks, evals, done, changed, notes,
           nOps, drained, nTimers>>
xvars == <<rgStart, rgEnd, rgOut, rgDone>>
wvars == <<mirror, toWorker, toClient, awaited, nCalls>>
vars == <<rvars, evars, gvars, xvars, wvars>>

(***************************************************************************)
(* Numbers                                                                 *)
(***************************************************************************)
Abs(n) == IF n < 0 THEN -n ELSE n

RECURSIVE GCD(_, _)
GCD(a, b) == IF b = 0 THEN a ELSE GCD(b, a % b)

lowestTerms(n, d, g) == <<n \div g, d \div g>>

\* the rational n/d (d > 0) in lowest terms
R(n, d) == lowestTerms(n, d, GCD(Abs(n), d))

I(n) == <<n, 1>>
Zero == <<0, 1>>
One == <<1, 1>>
PosInf == <<1, 0>>
NegInf == <<-1, 0>>
\* an absent (undefined) optional number or array
Undef == <<>>

\* the sum and the product are taken over the least common denominator and
\* after cancelling across, which keeps the intermediate integers small
addOver(x, y, g) == R(x[1] * (y[2] \div g) + y[1] * (x[2] \div g), (x[2] \div g) * y[2])
RAdd(x, y) ==
    IF x[2] = 0 \/ y[2] = 0 THEN R(x[1] * y[2] + y[1] * x[2], x[2] * y[2])
    ELSE addOver(x, y, GCD(x[2], y[2]))
RNeg(x) == <<-x[1], x[2]>>
RSub(x, y) == RAdd(x, RNeg(y))
mulOver(x, y, g, h) == R((x[1] \div g) * (y[1] \div h), (x[2] \div h) * (y[2] \div g))
RMul(x, y) ==
    IF x[1] = 0 \/ y[1] = 0 \/ x[2] = 0 \/ y[2] = 0 THEN R(x[1] * y[1], x[2] * y[2])
    ELSE mulOver(x, y, GCD(Abs(x[1]), y[2]), GCD(Abs(y[1]), x[2]))
RInv(x) == IF x[1] > 0 THEN <<x[2], x[1]>> ELSE <<-x[2], -x[1]>>
RDiv(x, y) == RMul(x, RInv(y))
ltOver(x, y, g) == x[1] * (y[2] \div g) < y[1] * (x[2] \div g)
RLt(x, y) ==
    IF x[2] = 0 \/ y[2] = 0 THEN x[1] * y[2] < y[1] * x[2] ELSE ltOver(x, y, GCD(x[2], y[2]))
RLe(x, y) == ~RLt(y, x)
RAbs(x) == <<Abs(x[1]), x[2]>>
RMin(x, y) == IF RLt(y, x) THEN y ELSE x
RMax(x, y) == IF RLt(x, y) THEN y ELSE x
RFloor(x) == x[1] \div x[2]
\* |x| < 1/inv
RSmall(x, inv) == x[1] = 0 \/ x[2] \div Abs(x[1]) >= inv

(***************************************************************************)
(* Components and distributions (core/types.ts, core/dist.ts)              *)
(***************************************************************************)
Atom(x, p) == [type |-> "atom", x |-> x, p |-> p]
Bin(a, b, p, repr, shape) ==
    [type |-> "bin", a |-> a, b |-> b, p |-> p, repr |-> repr, shape |-> shape]
TailC(side, x0, mass, lambda) ==
    [type |-> "tail", side |-> side, x0 |-> x0, mass |-> mass,
     family |-> "exp", params |-> [lambda |-> lambda]]

massOf(c) == IF c.type = "tail" THEN c.mass ELSE c.p
withMass(c, m) == IF c.type = "tail" THEN [c EXCEPT !.mass = m] ELSE [c EXCEPT !.p = m]

\* the sort key of Dist.sort
getKey(c) ==
    IF c.type = "atom" THEN c.x
    ELSE IF c.type = "bin" THEN c.a
    ELSE IF c.side = "left" THEN NegInf ELSE c.x0

\* Array.prototype.sort is stable: c goes behind every component whose key
\* is not greater than its own
RECURSIVE insertComp(_, _)
insertComp(s, c) ==
    IF s = <<>> THEN <<c>>
    ELSE IF RLt(getKey(c), getKey(s[Len(s)]))
         THEN Append(insertComp(SubSeq(s, 1, Len(s) - 1), c), s[Len(s)])
         ELSE Append(s, c)

RECURSIVE sort(_)
sort(s) == IF s = <<>> THEN <<>> ELSE insertComp(sort(SubSeq(s, 1, Len(s) - 1)), s[Len(s)])

\* new Dist(components): a copy of the array, sorted
Dist(components) == sort(components)

RECURSIVE totalMass(_)
totalMass(s) == IF s = <<>> THEN Zero ELSE RAdd(massOf(s[1]), totalMass(Tail(s)))

NormEpsInv == 1000000000

\* the second loop of normalize, t being the total mass
rescale(s, t) ==
    IF t = Zero \/ RSmall(RSub(t, One), NormEpsInv) THEN s
    ELSE [i \in 1..Len(s) |-> withMass(s[i], RMul(massOf(s[i]), RInv(t)))]

\* Dist.normalize, as the components it leaves in the (mutated) Dist
normalize(s) == rescale(s, totalMass(s))

\* Dist.mean (JS fallback): bins count with their midpoint, whatever their repr
RECURSIVE mean(_)
mean(s) ==
    IF s = <<>> THEN Zero
    ELSE LET c == s[1]
             m == IF c.type = "atom" THEN RMul(c.p, c.x)
                  ELSE IF c.type = "bin" THEN RDiv(RMul(c.p, RAdd(c.a, c.b)), I(2))
                  ELSE LET lambda == IF c.params.lambda = Zero THEN One ELSE c.params.lambda
                           condMean == IF c.side = "right" THEN RAdd(c.x0, RInv(lambda))
                                       ELSE RSub(c.x0, RInv(lambda))
                       IN RMul(c.mass, condMean)
         IN RAdd(m, mean(Tail(s)))

(***************************************************************************)
(* The reducer (core/reducer.ts)                                           *)
(***************************************************************************)
getStart(c) ==
    IF c.type = "atom" THEN c.x
    ELSE IF c.type = "bin" THEN c.a
    ELSE IF c.side = "left" THEN NegInf ELSE c.x0

getEnd(c) ==
    IF c.type = "atom" THEN c.x
    ELSE IF c.type = "bin" THEN c.b
    ELSE IF c.side = "left" THEN c.x0 ELSE PosInf

\* only the junction [end1, start2] of the two neighbours is looked at
hasBoundaryBetween(end1, start2, bounds) ==
    \E k \in 1..Len(bounds) : RLe(end1, bounds[k]) /\ RLe(bounds[k], start2)

\* the fields mergeComponents reads of one component: a tail counts as 0, 0, 0
mergeView(c) ==
    IF c.type = "atom" THEN [start |-> c.x, end |-> c.x, mean |-> c.x]
    ELSE IF c.type = "bin" THEN [start |-> c.a, end |-> c.b, mean |-> c.repr]
    ELSE [start |-> Zero, end |-> Zero, mean |-> Zero]

RECURSIVE mergeAcc(_, _)
mergeAcc(comps, acc) ==
    IF comps = <<>> THEN acc
    ELSE LET c == comps[1]
             v == mergeView(c)
             p == massOf(c)
         IN mergeAcc(Tail(comps),
                     [minA |-> RMin(acc.minA, v.start),
                      maxB |-> RMax(acc.maxB, v.end),
                      totalP |-> RAdd(acc.totalP, p),
                      weightedRepr |-> RAdd(acc.weightedRepr, RMul(v.mean, p))])

\* the bin that mergeComponents returns for the sums of its loop
mergedBin(acc) ==
    Bin(acc.minA, acc.maxB, acc.totalP,
        IF RLt(Zero, acc.totalP) THEN RDiv(acc.weightedRepr, acc.totalP)
        ELSE RDiv(RAdd(acc.minA, acc.maxB), I(2)),
        "uniform")

mergeComponents(comps) ==
    mergedBin(mergeAcc(comps, [minA |-> PosInf, maxB |-> NegInf,
                               totalP |-> Zero, weightedRepr |-> Zero]))

\* one pass of splitAtBoundaries for the boundary b
RECURSIVE splitAt1(_, _)
splitAt1(comps, b) ==
    IF comps = <<>> THEN <<>>
    ELSE LET c == comps[1] IN
         IF c.type = "bin" /\ RLt(c.a, b) /\ RLt(b, c.b)
         THEN LET w == RSub(c.b, c.a)
                  p1 == RMul(c.p, RDiv(RSub(b, c.a), w))
                  p2 == RMul(c.p, RDiv(RSub(c.b, b), w))
              IN <<Bin(c.a, b, p1, RDiv(RAdd(c.a, b), I(2)), c.shape),
                   Bin(b, c.b, p2, RDiv(RAdd(b, c.b), I(2)), c.shape)>>
                 \o splitAt1(Tail(comps), b)
         ELSE <<c>> \o splitAt1(Tail(comps), b)

RECURSIVE splitAtBoundaries(_, _)
splitAtBoundaries(comps, boundaries) ==
    IF boundaries = <<>> THEN comps
    ELSE splitAtBoundaries(splitAt1(comps, boundaries[1]), Tail(boundaries))

MaxValue == PosInf

\* getImp of reduce(): c is the impact center, w the width weight
getImp(cmp, c, w) ==
    IF cmp.type = "tail" THEN MaxValue
    ELSE LET repr == IF cmp.type = "atom" THEN cmp.x ELSE cmp.repr
             width == IF cmp.type = "atom" THEN Zero ELSE RSub(cmp.b, cmp.a)
             impact == RAdd(RAbs(RSub(repr, c)), RMul(w, width))
         IN RMul(cmp.p, impact)

flushBuffer(result, buffer) ==
    IF buffer = <<>> THEN result
    ELSE IF Len(buffer) = 1 THEN Append(result, buffer[1])
    ELSE Append(result, mergeComponents(buffer))

RECURSIVE mergeValleysFrom(_, _, _, _, _, _, _)
mergeValleysFrom(comps, result, buffer, tau, bounds, c, w) ==
    IF comps = <<>> THEN flushBuffer(result, buffer)
    ELSE LET cmp == comps[1] IN
         IF RLt(getImp(cmp, c, w), tau)
         THEN IF buffer # <<>>
                 /\ hasBoundaryBetween(getEnd(buffer[Len(buffer)]), getStart(cmp), bounds)
              THEN mergeValleysFrom(Tail(comps), flushBuffer(result, buffer), <<cmp>>,
                                    tau, bounds, c, w)
              ELSE mergeValleysFrom(Tail(comps), result, Append(buffer, cmp),
                                    tau, bounds, c, w)
         ELSE mergeValleysFrom(Tail(comps), Append(flushBuffer(result, buffer), cmp), <<>>,
                               tau, bounds, c, w)

mergeValleys(comps, tau, bounds, c, w) ==
    mergeValleysFrom(comps, <<>>, <<>>, tau, bounds, c, w)

\* the neighbours i, i+1 may be merged
mergeable(current, i, bounds) ==
    /\ ~hasBoundaryBetween(getEnd(current[i]), getStart(current[i + 1]), bounds)
    /\ current[i].type # "tail" /\ current[i + 1].type # "tail"

pairCost(current, i, c, w) == RAdd(getImp(current[i], c, w), getImp(current[i + 1], c, w))

\* the pairs that the search of greedyReduce does not skip and whose cost is
\* below the initial minCost
mergeablePairs(current, bounds, c, w) ==
    {i \in 1..(Len(current) - 1) :
        mergeable(current, i, bounds) /\ RLt(pairCost(current, i, c, w), MaxValue)}

\* the first index of least cost among the pairs ok, -1 if there is none
leastCost(ok, cost) ==
    IF ok = {} THEN -1
    ELSE CHOOSE i \in ok :
           \A j \in ok : /\ RLe(cost[i], cost[j])
                         /\ (j < i => RLt(cost[i], cost[j]))

bestAmong(current, ok, c, w) == leastCost(ok, [i \in ok |-> pairCost(current, i, c, w)])

\* bestIdx of greedyReduce after its search
bestIdx(current, bounds, c, w) ==
    bestAmong(current, mergeablePairs(current, bounds, c, w), c, w)

\* current.splice(i, 2, merged)
mergeStep(current, i) ==
    SubSeq(current, 1, i - 1)
      \o <<mergeComponents(<<current[i], current[i + 1]>>)>>
      \o SubSeq(current, i + 2, Len(current))

\* a greedyReduce that gives up after one round of its while loop
mergeOnce(comps, targetN, bounds, c, w) ==
    IF RLt(targetN, I(Len(comps))) /\ bestIdx(comps, bounds, c, w) # -1
    THEN mergeStep(comps, bestIdx(comps, bounds, c, w))
    ELSE comps

RECURSIVE greedyReduce(_, _, _, _, _)
\* one round of the while loop of greedyReduce, best being its bestIdx
greedyMerge(current, best, targetN, bounds, c, w) ==
    IF best = -1 THEN current
    ELSE greedyReduce(mergeStep(current, best), targetN, bounds, c, w)

greedyReduce(comps, targetN, bounds, c, w) ==
    IF RLt(targetN, I(Len(comps)))
    THEN greedyMerge(comps, bestIdx(comps, bounds, c, w), targetN, bounds, c, w)
    ELSE comps

RECURSIVE rangeOf(_, _)
rangeOf(comps, acc) ==
    IF comps = <<>> THEN acc
    ELSE rangeOf(Tail(comps), [min |-> RMin(acc.min, getStart(comps[1])),
                               max |-> RMax(acc.max, getEnd(comps[1]))])

\* bIdx of fastBucketReduce, raw being the Math.floor
clampIndex(raw, targetN) ==
    IF raw < 0 THEN 0
    ELSE IF RLe(targetN, I(raw)) THEN RFloor(RSub(targetN, One))
    ELSE raw

bucketIndex(cmp, targetN, min, bucketSize) ==
    clampIndex(RFloor(RDiv(RSub(RDiv(RAdd(getStart(cmp), getEnd(cmp)), I(2)), min), bucketSize)),
               targetN)

mergedBucket(bucket) == IF bucket = <<>> THEN <<>> ELSE <<mergeComponents(bucket)>>

\* the buckets are numbered 0 .. length - 1, length being the array length
\* that Array.from makes of targetN
RECURSIVE mergeBuckets(_, _, _, _, _)
mergeBuckets(comps, k, targetN, min, bucketSize) ==
    IF k > RFloor(targetN) THEN <<>>
    ELSE mergedBucket(SelectSeq(comps, LAMBDA cmp : bucketIndex(cmp, targetN, min, bucketSize) = k - 1))
           \o mergeBuckets(comps, k + 1, targetN, min, bucketSize)

\* fastBucketReduce once the range r of the components is known
bucketsOver(comps, targetN, bounds, r) ==
    IF RLe(r.max, r.min) THEN comps
    ELSE IF bounds # <<>>
    THEN splitAtBoundaries(mergeBuckets(comps, 1, targetN, r.min, RDiv(RSub(r.max, r.min), targetN)),
                           bounds)
    ELSE mergeBuckets(comps, 1, targetN, r.min, RDiv(RSub(r.max, r.min), targetN))

fastBucketReduce(comps, targetN, bounds) ==
    bucketsOver(comps, targetN, bounds, rangeOf(comps, [min |-> PosInf, max |-> NegInf]))

FastBucketMin == 1000

ReduceParams(targetN, impactCenter, impactWidthWeight, tau, boundaries) ==
    [targetN |-> targetN, impactCenter |-> impactCenter,
     impactWidthWeight |-> impactWidthWeight, tau |-> tau, boundaries |-> boundaries]

\* step 5 of reduce, the greedy merge down to targetN, and the Dist returned;
\* normed is what dist.normalize() left in the caller's Dist
reduceToTarget(normed, comps, targetN, bounds, c, w) ==
    [dist |-> normed,
     out |-> Dist(IF RLt(targetN, I(Len(comps)))
                  THEN greedyReduce(comps, targetN, bounds, c, w)
                  ELSE comps)]

\* step 5 of reduce, the fast bucketing of a very long array
reduceBuckets(normed, comps, targetN, bounds, c, w) ==
    reduceToTarget(normed,
                   IF RLt(RMax(I(FastBucketMin), RMul(targetN, I(4))), I(Len(comps)))
                   THEN fastBucketReduce(comps, RMul(targetN, I(2)), bounds)
                   ELSE comps,
                   targetN, bounds, c, w)

\* step 4 of reduce, the valley compression
reduceValleys(normed, comps, params, bounds, c, w) ==
    reduceBuckets(normed,
                  IF params.tau # Undef THEN mergeValleys(comps, params.tau, bounds, c, w)
                  ELSE comps,
                  params.targetN, bounds, c, w)

\* step 3 of reduce, the boundary splitting
reduceSplit(normed, params, bounds) ==
    reduceValleys(normed,
                  IF bounds # <<>> THEN splitAtBoundaries(normed, bounds) ELSE normed,
                  params, bounds,
                  IF params.impactCenter = Undef THEN Zero ELSE params.impactCenter,
                  IF params.impactWidthWeight = Undef THEN Zero ELSE params.impactWidthWeight)

\* reduce(dist, params): .dist is what dist.normalize() leaves in the caller's
\* Dist, .out the components of the Dist that is returned
reduce(dist, params) ==
    reduceSplit(normalize(dist), params,
                IF params.boundaries = Undef THEN <<>> ELSE params.boundaries)

(***************************************************************************)
(* More of Dist (core/dist.ts) and convolveFn (core/ops.ts)                *)
(***************************************************************************)
shiftBin(b, x, p) == <<Bin(RAdd(b.a, x), RAdd(b.b, x), p, RAdd(b.repr, x), b.shape)>>

\* Math.sqrt on the widths the model meets: exact when the square is a perfect
\* square of a rational, otherwise the integer root of the rounded value
RECURSIVE isqrtFrom(_, _)
isqrtFrom(n, k) == IF (k + 1) * (k + 1) > n THEN k ELSE isqrtFrom(n, k + 1)
RSqrt(x) == <<isqrtFrom(x[1] * x[2], 0), x[2]>>

\* the bin of two convolved bins
convolvedBin(newMean, newWidth, newP) ==
    <<Bin(RSub(newMean, RDiv(newWidth, I(2))), RAdd(newMean, RDiv(newWidth, I(2))),
          newP, newMean, "uniform")>>

\* newWidth of two bins of widths w1 and w2
convolvedWidth(w1, w2) ==
    RSqrt(RMul(I(12), RAdd(RDiv(RMul(w1, w1), I(12)), RDiv(RMul(w2, w2), I(12)))))

convolveFn(c1, c2) ==
    IF c1.type = "tail" \/ c2.type = "tail" THEN <<>>
    ELSE IF c1.type = "atom" /\ c2.type = "atom"
    THEN <<Atom(RAdd(c1.x, c2.x), RMul(c1.p, c2.p))>>
    ELSE IF c1.type = "atom" /\ c2.type = "bin" THEN shiftBin(c2, c1.x, RMul(c1.p, c2.p))
    ELSE IF c1.type = "bin" /\ c2.type = "atom" THEN shiftBin(c1, c2.x, RMul(c1.p, c2.p))
    ELSE convolvedBin(RAdd(RDiv(RAdd(c1.a, c1.b), I(2)), RDiv(RAdd(c2.a, c2.b), I(2))),
                      convolvedWidth(RSub(c1.b, c1.a), RSub(c2.b, c2.a)),
                      RMul(c1.p, c2.p))

RECURSIVE addRow(_, _)
addRow(c1, d2) == IF d2 = <<>> THEN <<>> ELSE convolveFn(c1, d2[1]) \o addRow(c1, Tail(d2))

RECURSIVE addComps(_, _)
addComps(d1, d2) == IF d1 = <<>> THEN <<>> ELSE addRow(d1[1], d2) \o addComps(Tail(d1), d2)

\* Dist.add (JS fallback)
add(d1, d2) == Dist(addComps(d1, d2))

scaleComp(c, k) ==
    IF c.type = "atom" THEN [c EXCEPT !.x = RMul(c.x, k)]
    ELSE IF c.type = "bin"
         THEN LET na == RMul(c.a, k)
                  nb == RMul(c.b, k)
              IN [c EXCEPT !.a = RMin(na, nb), !.b = RMax(na, nb), !.repr = RMul(c.repr, k)]
    ELSE c

\* Dist.scale (JS fallback)
scale(d, k) == Dist([i \in 1..Len(d) |-> scaleComp(d[i], k)])

\* Dist.sub
sub(d1, d2) == add(d1, scale(d2, I(-1)))

reciprocalComp(c) ==
    IF c.type = "atom"
    THEN IF c.x = Zero THEN <<>> ELSE <<[c EXCEPT !.x = RInv(c.x)]>>
    ELSE IF c.type = "bin"
    THEN IF RLe(c.a, Zero) /\ RLe(Zero, c.b)
         THEN IF RLt(c.a, Zero) /\ RLt(Zero, c.b)
              THEN LET w == RSub(c.b, c.a)
                       pNeg == RMul(c.p, RDiv(RNeg(c.a), w))
                       pPos == RMul(c.p, RDiv(c.b, w))
                       midNeg == RDiv(RAdd(c.a, RMin(Zero, RDiv(c.a, I(2)))), I(2))
                       midPos == RDiv(RAdd(RMax(Zero, RDiv(c.b, I(2))), c.b), I(2))
                   IN <<Atom(RInv(midNeg), pNeg), Atom(RInv(midPos), pPos)>>
              ELSE IF c.a = Zero THEN <<Atom(RInv(RDiv(c.b, I(2))), c.p)>>
              ELSE <<Atom(RInv(RDiv(c.a, I(2))), c.p)>>
         ELSE LET newA == RInv(c.b)
                  newB == RInv(c.a)
              IN <<[c EXCEPT !.a = RMin(newA, newB), !.b = RMax(newA, newB),
                             !.repr = RInv(c.repr)]>>
    ELSE LET lambda == IF c.params.lambda = Zero THEN One ELSE c.params.lambda
             condMean == IF c.side = "right" THEN RAdd(c.x0, RInv(lambda))
                         ELSE RSub(c.x0, RInv(lambda))
         IN IF condMean = Zero THEN <<>> ELSE <<Atom(RInv(condMean), c.mass)>>

RECURSIVE reciprocalComps(_)
reciprocalComps(d) ==
    IF d = <<>> THEN <<>> ELSE reciprocalComp(d[1]) \o reciprocalComps(Tail(d))

\* Dist.reciprocal
reciprocal(d) == Dist(reciprocalComps(d))

\* Dist.mix (JS fallback): this keeps 1 - p, other gets p
mix(this, other, p) ==
    Dist([i \in 1..Len(this) |-> withMass(this[i], RMul(massOf(this[i]), RSub(One, p)))]
           \o [i \in 1..Len(other) |-> withMass(other[i], RMul(massOf(other[i]), p))])

(***************************************************************************)
(* Characters and strings: a string is a sequence of one-character strings *)
(***************************************************************************)
DigitSeq == <<"0", "1", "2", "3", "4", "5", "6", "7", "8", "9">>
UpperSeq == <<"A", "B", "C", "D", "E", "F", "G", "H", "I", "J", "K", "L", "M",
              "N", "O", "P", "Q", "R", "S", "T", "U", "V", "W", "X", "Y", "Z">>
LowerSeq == <<"a", "b", "c", "d", "e", "f", "g", "h", "i", "j", "k", "l", "m",
              "n", "o", "p", "q", "r", "s", "t", "u", "v", "w", "x", "y", "z">>
RangeOf(f) == {f[i] : i \in DOMAIN f}
Digits == RangeOf(DigitSeq)
Uppers == RangeOf(UpperSeq)
Lowers == RangeOf(LowerSeq)
WordChars == Digits \cup Uppers \cup Lowers \cup {"_"}
Spaces == {" "}

IndexIn(seq, ch) == CHOOSE i \in DOMAIN seq : seq[i] = ch
digitVal(ch) == IndexIn(DigitSeq, ch) - 1
toUpperChar(ch) == IF ch \in Lowers THEN UpperSeq[IndexIn(LowerSeq, ch)] ELSE ch
toUpperCase(str) == [i \in 1..Len(str) |-> toUpperChar(str[i])]

\* parseInt(str, 10) of a string of digits
RECURSIVE parseInt(_)
parseInt(str) ==
    IF str = <<>> THEN 0 ELSE 10 * parseInt(SubSeq(str, 1, Len(str) - 1)) + digitVal(str[Len(str)])

RECURSIVE pow10(_)
pow10(n) == IF n = 0 THEN 1 ELSE 10 * pow10(n - 1)

\* the length of the longest prefix of str made of characters of cls
RECURSIVE spanLen(_, _)
spanLen(str, cls) ==
    IF str = <<>> \/ str[1] \notin cls THEN 0 ELSE 1 + spanLen(Tail(str), cls)

dropN(str, n) == SubSeq(str, n + 1, Len(str))

NaN == <<0, 0>>

\* the digits behind a dot at the head of rest
fractionLen(rest) ==
    IF rest # <<>> /\ rest[1] = "." THEN spanLen(Tail(rest), Digits) ELSE 0

\* the number of n1 digits, a dot and n2 digits; NaN when there is no digit
floatOf(str, n1, n2) ==
    IF n1 + n2 = 0 THEN NaN
    ELSE R(parseInt(SubSeq(str, 1, n1)) * pow10(n2) + parseInt(SubSeq(str, n1 + 2, n1 + n2 + 1)),
           pow10(n2))

floatFrom(str, n1) == floatOf(str, n1, fractionLen(dropN(str, n1)))

\* parseFloat of a NUMBER token (digits and dots): the digits, a dot and the
\* digits behind it; reading stops at a second dot
parseFloat(str) == floatFrom(str, spanLen(str, Digits))

\* the String.trim of a string without leading spaces
trimEnd(s1) ==
    SubSeq(s1, 1, Len(s1) - spanLen([i \in 1..Len(s1) |-> s1[Len(s1) + 1 - i]], Spaces))

trim(str) == trimEnd(dropN(str, spanLen(str, Spaces)))

\* body is a decimal literal: n1 digits, then nothing or a dot and n2 digits
decimalOf(body, n1, n2) ==
    ~(n1 + n2 = 0)
    /\ n1 + (IF Len(body) > n1 /\ body[n1 + 1] = "." THEN 1 + n2 ELSE 0) = Len(body)

decimalFrom(body, n1) == decimalOf(body, n1, fractionLen(dropN(body, n1)))

\* Number of an unsigned text
unsigned(body) ==
    IF decimalFrom(body, spanLen(body, Digits)) THEN parseFloat(body) ELSE NaN

\* Number(str) of a trimmed non-empty string: an optional sign and a decimal
\* literal; every other text is NaN
Number(str) ==
    IF str # <<>> /\ str[1] = "-"
    THEN IF unsigned(Tail(str)) = NaN THEN NaN ELSE RNeg(unsigned(Tail(str)))
    ELSE IF str # <<>> /\ str[1] = "+" THEN unsigned(Tail(str))
    ELSE unsigned(str)

(***************************************************************************)
(* Tokenizer and range expansion (engine/evaluator.ts)                     *)
(***************************************************************************)
Token(type, value) == [type |-> type, value |-> value]

punctType(ch) ==
    CASE ch = "+" -> "PLUS"
      [] ch = "-" -> "MINUS"
      [] ch = "*" -> "MUL"
      [] ch = "/" -> "DIV"
      [] ch = "(" -> "LPAREN"
      [] ch = ")" -> "RPAREN"
      [] ch = "," -> "COMMA"
      [] ch = ":" -> "COLON"
      [] OTHER -> ""

\* tokenize(input): .err is the message thrown (<<>> when none)
RECURSIVE tokenizeFrom(_, _)
tokenizeFrom(input, tokens) ==
    IF input = <<>> THEN [err |-> <<>>, tokens |-> tokens]
    ELSE LET ch == input[1] IN
         IF ch \in Spaces THEN tokenizeFrom(Tail(input), tokens)
         ELSE IF ch \in Digits \cup {"."}
         THEN LET n == spanLen(input, Digits \cup {"."})
              IN tokenizeFrom(dropN(input, n), Append(tokens, Token("NUMBER", SubSeq(input, 1, n))))
         ELSE IF ch \in Uppers \cup Lowers \cup {"_"}
         THEN LET n == spanLen(input, WordChars)
              IN tokenizeFrom(dropN(input, n), Append(tokens, Token("ID", SubSeq(input, 1, n))))
         ELSE IF punctType(ch) # ""
         THEN tokenizeFrom(Tail(input), Append(tokens, Token(punctType(ch), <<ch>>)))
         ELSE [err |-> <<"Unknown character: ", ch>>, tokens |-> tokens]

tokenize(input) == tokenizeFrom(input, <<>>)

\* the match of /^([A-Z]+)([0-9]+)$/ on a text of n1 capitals and then n2 digits
cellMatch(up, n1, n2) ==
    IF n1 = 0 \/ n2 = 0 \/ n1 + n2 # Len(up) THEN <<>>
    ELSE <<[col |-> SubSeq(up, 1, n1), row |-> parseInt(dropN(up, n1))]>>

cellMatchFrom(up, n1) == cellMatch(up, n1, spanLen(dropN(up, n1), Digits))

\* parseCell of expandRange: <<>> when the text is no [A-Z]+[0-9]+
parseCell(cell) == cellMatchFrom(toUpperCase(cell), spanLen(toUpperCase(cell), Uppers))

RECURSIVE colSum(_)
colSum(col) ==
    IF col = <<>> THEN 0 ELSE 26 * colSum(SubSeq(col, 1, Len(col) - 1)) + IndexIn(UpperSeq, col[Len(col)])
colToIndex(col) == colSum(col) - 1

RECURSIVE indexToCol(_)
indexToCol(n) ==
    IF n < 0 THEN <<>> ELSE Append(indexToCol((n \div 26) - 1), UpperSeq[(n % 26) + 1])

\* the decimal text of a natural number
RECURSIVE numToStr(_)
numToStr(n) ==
    IF n < 10 THEN <<DigitSeq[n + 1]>> ELSE Append(numToStr(n \div 10), DigitSeq[(n % 10) + 1])

Min2(a, b) == IF a < b THEN a ELSE b
Max2(a, b) == IF a > b THEN a ELSE b

\* the two loops exchanged: column-major over the rectangle
rangeCellsByColumn(minC, maxC, minR, maxR) ==
    [k \in 1..((maxR - minR + 1) * (maxC - minC + 1)) |->
        indexToCol(minC + ((k - 1) \div (maxR - minR + 1)))
          \o numToStr(minR + ((k - 1) % (maxR - minR + 1)))]

\* the two loops of expandRange: row-major over the rectangle
rangeCells(minC, maxC, minR, maxR) ==
    [k \in 1..((maxR - minR + 1) * (maxC - minC + 1)) |->
        indexToCol(minC + ((k - 1) % (maxC - minC + 1)))
          \o numToStr(minR + ((k - 1) \div (maxC - minC + 1)))]

\* expandRange with s and e, the results of parseCell
expandParsed(start, end, s, e) ==
    IF s = <<>> THEN [err |-> <<"Invalid cell ref in range: ">> \o start, cells |-> <<>>]
    ELSE IF e = <<>> THEN [err |-> <<"Invalid cell ref in range: ">> \o end, cells |-> <<>>]
    ELSE [err |-> <<>>,
          cells |-> rangeCells(Min2(colToIndex(s[1].col), colToIndex(e[1].col)),
                               Max2(colToIndex(s[1].col), colToIndex(e[1].col)),
                               Min2(s[1].row, e[1].row),
                               Max2(s[1].row, e[1].row))]

\* expandRange(start, end): .err is the message thrown (<<>> when none)
expandRange(start, end) == expandParsed(start, end, parseCell(start), parseCell(end))

(***************************************************************************)
(* Dependency extraction (engine/graph.ts)                                 *)
(***************************************************************************)
\* /\b([A-Z]+[0-9]+)\b/g matches exactly the maximal runs of word characters
\* that consist of capital letters followed by digits
isCellWord(word) ==
    LET n1 == spanLen(word, Uppers)
        n2 == spanLen(dropN(word, n1), Digits)
    IN n1 > 0 /\ n2 > 0 /\ n1 + n2 = Len(word)

\* Set.add on an insertion-ordered Set
setAdd(q, x) == IF \E i \in 1..Len(q) : q[i] = x THEN q ELSE Append(q, x)

\* Set.delete
setDelete(q, x) == SelectSeq(q, LAMBDA y : y # x)

\* the matches of regex.exec in the rest of the input, added to deps
RECURSIVE detectFrom(_, _)
detectFrom(input, deps) ==
    IF input = <<>> THEN deps
    ELSE IF input[1] \in WordChars
    THEN LET n == spanLen(input, WordChars)
             word == SubSeq(input, 1, n)
         IN detectFrom(dropN(input, n), IF isCellWord(word) THEN setAdd(deps, word) ELSE deps)
    ELSE detectFrom(Tail(input), deps)

\* Graph.detectDependencies: the Set of matches, in the order they were added
detectDependencies(input) == detectFrom(input, <<>>)

(***************************************************************************)
(* The evaluator (engine/evaluator.ts): class Parser and evaluate()        *)
(*                                                                         *)
(* A parser state s is [pos, lmc, vals, order, reads]: the token position  *)
(* (1-based), localMaxComponents, the Dist stored in every cell, the       *)
(* insertion order of the graph's cell map, and the identifiers resolved   *)
(* through ctx.getValue so far.  A result is [err, val, org, s]: the       *)
(* message thrown (<<>> when none), the Dist, the cell whose Dist object   *)
(* the result is (<<>> for a new object) and the state afterwards.         *)
(* ctx is [maxComponents, share]: share[c] is the set of cells whose value *)
(* is the same Dist object as that of c.                                   *)
(* Of the functions of parseFunctionCall the model has those named below;  *)
(* no input of the model calls another one.                                *)
(***************************************************************************)
FnCONFIG == <<"C", "O", "N", "F", "I", "G">>
FnCONST == <<"C", "O", "N", "S", "T">>
FnUNIFORM == <<"U", "N", "I", "F", "O", "R", "M">>
FnNORMAL == <<"N", "O", "R", "M", "A", "L">>
FnDISCRETE == <<"D", "I", "S", "C", "R", "E", "T", "E">>
FnADD == <<"A", "D", "D">>
FnCONVOLVE == <<"C", "O", "N", "V", "O", "L", "V", "E">>
FnMUL == <<"M", "U", "L">>
FnDIV == <<"D", "I", "V">>
FnBIN == <<"B", "I", "N">>
FnSCALE == <<"S", "C", "A", "L", "E">>
FnMIX == <<"M", "I", "X">>
FnREDUCE == <<"R", "E", "D", "U", "C", "E">>
FnMEAN == <<"M", "E", "A", "N">>
FnREF == <<"R", "E", "F">>
FnSUB == <<"S", "U", "B">>
FnSHIFT == <<"S", "H", "I", "F", "T">>
FnCHOICE == <<"C", "H", "O", "I", "C", "E">>
FnBINOMIAL == <<"B", "I", "N", "O", "M", "I", "A", "L">>
FnGEOM_SUM == <<"G", "E", "O", "M", "_", "S", "U", "M">>
FnREPEAT_ADD == <<"R", "E", "P", "E", "A", "T", "_", "A", "D", "D">>

DefaultMaxComponents == 200

Ok(s, val, org) == [err |-> <<>>, val |-> val, org |-> org, s |-> s]
Fail(s, msg) == [err |-> msg, val |-> <<>>, org |-> <<>>, s |-> s]
\* a new Dist that the code passes through checkSafety before going on
Unchecked(s, val) == [err |-> <<>>, val |-> val, org |-> <<>>, s |-> s, unchecked |-> TRUE]

\* the components a result denotes now: those of the cell's Dist when the
\* result is a cell's Dist object
cur(r, s) == IF r.org = <<>> THEN r.val ELSE s.vals[r.org]

typeAt(T, pos) == IF pos >= 1 /\ pos <= Len(T) THEN T[pos].type ELSE "undefined"

\* the message of a failed expect(type) at pos
expectMsg(T, pos, type) == <<"Expected ", type, ", got ", typeAt(T, pos)>>

\* ctx.getValue(id) of Graph.evaluateExpression: getCell creates a missing cell
getValue(s, id) ==
    LET s1 == IF id \in DOMAIN s.vals THEN s
              ELSE [s EXCEPT !.vals = @ @@ (id :> Dist(<<>>)), !.order = Append(@, id)]
    IN Ok([s1 EXCEPT !.reads = @ \cup {id}], s1.vals[id], id)

\* the cells whose value is the Dist object that cell id holds
sharing(ctx, id) == IF id \in DOMAIN ctx.share THEN ctx.share[id] ELSE {id}

effectiveLimit(s, ctx) ==
    IF s.lmc # Undef THEN s.lmc
    ELSE IF ctx.maxComponents # Undef THEN ctx.maxComponents
    ELSE I(DefaultMaxComponents)

\* Parser.checkSafety: reduce is called with targetN only
checkSafety(d, s, ctx) ==
    IF RLt(effectiveLimit(s, ctx), I(Len(d)))
    THEN reduce(d, ReduceParams(effectiveLimit(s, ctx), Undef, Undef, Undef, Undef)).out
    ELSE d

\* left = this.checkSafety(left), return this.checkSafety(...)
checked(r, ctx) ==
    IF r.err = <<>> /\ "unchecked" \in DOMAIN r
    THEN Ok(r.s, checkSafety(r.val, r.s, ctx), <<>>)
    ELSE r

ScalarEpsInv == 1000000000

isScalar(d) ==
    Len(d) = 1 /\ d[1].type = "atom" /\ RSmall(RSub(d[1].p, One), ScalarEpsInv)

getScalar(d) == d[1].x
ScalarMsg == <<"Expected scalar value (single atom with p=1)">>

\* the masses pdf(mid) * width of NORMAL's 20 bins, up to their common factor:
\* exp(-z * z / 2) at z = -3.8, -3.4, ..., 3.8, rounded to four decimals
NormalWeights == <<7, 31, 111, 340, 889, 1979, 3753, 6065, 8353, 9802, 9802, 8353, 6065, 3753, 1979, 889, 340, 111, 31, 7>>
NormalBins == 20

RECURSIVE sumSeq(_)
sumSeq(q) == IF q = <<>> THEN 0 ELSE q[1] + sumSeq(Tail(q))

\* bin i of NORMAL, a being its start
normalBin(a, width, i) ==
    Bin(a, RAdd(a, width), R(NormalWeights[i], sumSeq(NormalWeights)),
        RDiv(RAdd(a, RAdd(a, width)), I(2)), "uniform")

normalBinsFrom(start, width) ==
    [i \in 1..NormalBins |-> normalBin(RAdd(start, RMul(I(i - 1), width)), width, i)]

normalBins(mean0, std) ==
    normalBinsFrom(RSub(mean0, RMul(I(4), std)),
                   RDiv(RSub(RAdd(mean0, RMul(I(4), std)), RSub(mean0, RMul(I(4), std))),
                        I(NormalBins)))

\* the atoms of DISCRETE and CHOICE from the (value, weight) pairs
pairAtoms(vals) == [i \in 1..(Len(vals) \div 2) |-> Atom(getScalar(vals[2 * i - 1]), getScalar(vals[2 * i]))]

\* REDUCE: r is what reduce gave.  dist.normalize() works on the argument's
\* Dist object: when that is the Dist of a cell, every cell holding it changes
reduced(arg, s, ctx, r) ==
    Ok(IF arg.org = <<>> THEN s
       ELSE [s EXCEPT !.vals = [c \in DOMAIN @ |->
                                   IF c \in sharing(ctx, arg.org) THEN r.dist ELSE @[c]]],
       r.out, <<>>)

\* the digits behind the decimal point of n/d, n < d, as String() writes
\* them, 17 at most
RECURSIVE fractionDigits(_, _, _)
fractionDigits(n, d, left) ==
    IF n = 0 \/ left = 0 THEN <<>>
    ELSE <<DigitSeq[((10 * n) \div d) + 1]>> \o fractionDigits((10 * n) % d, d, left - 1)

\* the text of a finite number that is not negative
unsignedText(x) ==
    IF x[1] % x[2] = 0 THEN numToStr(x[1] \div x[2])
    ELSE numToStr(x[1] \div x[2]) \o <<".">> \o fractionDigits(x[1] % x[2], x[2], 17)

\* `${x}` of a finite number
numberText(x) == IF x[1] < 0 THEN <<"-">> \o unsignedText(RNeg(x)) ELSE unsignedText(x)

\* Math.pow(b, n) for a natural n
RECURSIVE pow(_, _)
pow(b, n) ==
    IF n = 0 THEN One
    ELSE IF n = 1 THEN b
    ELSE RMul(pow(b, n \div 2), pow(b, n - n \div 2))

\* the loop of BINOMIAL from k on, curP being P(k); p < 1
RECURSIVE binomialFrom(_, _, _, _)
binomialFrom(k, n, p, curP) ==
    IF k = n THEN <<Atom(I(k), curP)>>
    ELSE <<Atom(I(k), curP)>>
           \o binomialFrom(k + 1, n, p,
                           RMul(RMul(curP, R(n - k, k + 1)), RDiv(p, RSub(One, p))))

\* atoms.forEach(a.p /= sumP) when sumP > 0
dividedBy(atoms, sumP) ==
    IF RLt(Zero, sumP) THEN [i \in 1..Len(atoms) |-> [atoms[i] EXCEPT !.p = RDiv(@, sumP)]]
    ELSE atoms

normalized(atoms) == dividedBy(atoms, totalMass(atoms))

\* the atoms of BINOMIAL.  For p = 1 and n > 0, P(0) is 0 and every nextP is
\* 0 * ... * Infinity, which is NaN: sumP is NaN and nothing is divided
binomialAtoms(n, p) ==
    IF p = One /\ n > 0
    THEN [i \in 1..(n + 1) |-> Atom(I(i - 1), IF i = 1 THEN Zero ELSE NaN)]
    ELSE normalized(binomialFrom(0, n, p, pow(RSub(One, p), n)))

\* const limit = this.localMaxComponents ?? 200
binomialLimit(s) == IF s.lmc # Undef THEN s.lmc ELSE I(DefaultMaxComponents)

\* BINOMIAL behind its two getScalar calls, n being the Math.floor
binomial(s, n, p) ==
    IF n < 0 THEN Fail(s, <<"n must be >= 0">>)
    ELSE IF RLt(p, Zero) \/ RLt(One, p) THEN Fail(s, <<"p must be between 0 and 1">>)
    ELSE IF RLt(binomialLimit(s), I(n))
    THEN Fail(s, <<"BINOMIAL n=">> \o numToStr(n) \o <<" exceeds component limit ">>
                   \o numberText(binomialLimit(s)) \o <<".">>)
    ELSE Ok(s, Dist(binomialAtoms(n, p)), <<>>)

\* new Dist([{type: "atom", x: 0, p: 1}])
PointZero == Dist(<<Atom(Zero, One)>>)

MaxLoops == 2000
\* 0.9999, the cumulative weight beyond which GEOM_SUM stops
GeomCutoff == R(9999, 10000)

\* the components of currentConv pushed with their masses times currentProb
geomTerm(conv, prob) ==
    [i \in 1..Len(conv) |-> withMass(conv[i], RMul(massOf(conv[i]), prob))]

RECURSIVE geomLoop(_, _, _, _, _, _, _, _, _)

\* an update of currentProb by currentProb *= p / (1 - p) alone
geomDrift(k, rc, cum, conv, prob, base, p, s, ctx) ==
    IF RLt(GeomCutoff, cum) THEN rc
    ELSE geomLoop(k + 1, rc, checkSafety(add(conv, base), s, ctx),
                  RMul(prob, RDiv(p, RSub(One, p))), cum, base, p, s, ctx)

\* the loop body of GEOM_SUM behind the push of term k: rc is resultComps
\* and cum cumulativeProb
geomNext(k, rc, cum, conv, prob, base, p, s, ctx) ==
    IF RLt(GeomCutoff, cum) THEN rc
    ELSE geomLoop(k + 1, rc, checkSafety(add(conv, base), s, ctx),
                  RMul(RSub(One, p), pow(p, k + 1)), cum, base, p, s, ctx)

\* while (k < maxLoops) of GEOM_SUM: resultComps when the loop ends
geomLoop(k, resultComps, currentConv, currentProb, cumulativeProb, base, p, s, ctx) ==
    IF k >= MaxLoops THEN resultComps
    ELSE geomNext(k, resultComps \o geomTerm(currentConv, currentProb),
                  RAdd(cumulativeProb, currentProb), currentConv, currentProb, base, p, s, ctx)

\* GEOM_SUM behind its getScalar call
geomSum(s, ctx, base, p) ==
    IF RLt(p, Zero) \/ RLe(One, p) THEN Fail(s, <<"p must be in [0, 1)">>)
    ELSE IF p = Zero THEN Ok(s, PointZero, <<>>)
    ELSE Unchecked(s, Dist(geomLoop(0, <<>>, PointZero, RSub(One, p), Zero, base, p, s, ctx)))

RECURSIVE repeatLoop(_, _, _, _, _)

\* a loop that adds base to acc when count is even
repeatLoopEven(acc, base, count, s, ctx) ==
    IF count = 0 THEN acc
    ELSE repeatLoop(IF count % 2 = 0 THEN checkSafety(add(acc, base), s, ctx) ELSE acc,
                    checkSafety(add(base, base), s, ctx), count \div 2, s, ctx)

\* while (count > 0) of REPEAT_ADD: acc when the loop ends
repeatLoop(acc, base, count, s, ctx) ==
    IF count = 0 THEN acc
    ELSE repeatLoop(IF count % 2 = 1 THEN checkSafety(add(acc, base), s, ctx) ELSE acc,
                    checkSafety(add(base, base), s, ctx), count \div 2, s, ctx)

\* REPEAT_ADD behind its getScalar call, n being the Math.floor
repeatAdd(s, ctx, arg, base, n) ==
    IF n <= 0 THEN Ok(s, PointZero, <<>>)
    ELSE IF n = 1 THEN Ok(s, arg.val, arg.org)
    ELSE Ok(s, repeatLoop(PointZero, base, n, s, ctx), <<>>)

\* the second part of parseFunctionCall: the dispatch on the upper-cased name;
\* args are results, a[i] the components they denote at the call.  Unchecked
\* is a Dist that the function returns through checkSafety
dispatch(name, args, s, ctx) ==
    LET fn == toUpperCase(name)
        n == Len(args)
        a == [i \in 1..n |-> cur(args[i], s)]
        sc(i) == isScalar(a[i])
        x(i) == getScalar(a[i])
        allScalar == \A i \in 1..n : sc(i)
    IN
    IF fn = FnCONST THEN
        IF n # 1 THEN Fail(s, <<"CONST requires 1 arg (x)">>)
        ELSE IF ~sc(1) THEN Fail(s, ScalarMsg)
        ELSE Ok(s, Dist(<<Atom(x(1), One)>>), <<>>)
    ELSE IF fn = FnUNIFORM THEN
        IF n # 2 THEN Fail(s, <<"UNIFORM requires 2 args (min, max)">>)
        ELSE IF ~allScalar THEN Fail(s, ScalarMsg)
        ELSE IF RLe(x(2), x(1)) THEN Fail(s, <<"UNIFORM min must be < max">>)
        ELSE Ok(s, Dist(<<Bin(x(1), x(2), One, RDiv(RAdd(x(1), x(2)), I(2)), "uniform")>>), <<>>)
    ELSE IF fn = FnNORMAL THEN
        IF n # 2 THEN Fail(s, <<"NORMAL requires 2 args (mean, std)">>)
        ELSE IF ~allScalar THEN Fail(s, ScalarMsg)
        ELSE IF RLe(x(2), Zero) THEN Fail(s, <<"NORMAL std must be > 0">>)
        ELSE Ok(s, Dist(normalBins(x(1), x(2))), <<>>)
    ELSE IF fn = FnDISCRETE THEN
        IF n = 0 \/ n % 2 # 0
        THEN Fail(s, <<"DISCRETE requires pairs of args (value, prob, ...)">>)
        ELSE IF \E i \in 1..(n \div 2) :
                   /\ ~sc(2 * i - 1) \/ ~sc(2 * i)
                   /\ \A j \in 1..(i - 1) : sc(2 * j - 1) /\ sc(2 * j) /\ RLe(Zero, x(2 * j))
        THEN Fail(s, ScalarMsg)
        ELSE IF \E i \in 1..(n \div 2) : sc(2 * i) /\ RLt(x(2 * i), Zero)
        THEN Fail(s, <<"Probability must be >= 0">>)
        ELSE IF totalMass(pairAtoms(a)) = Zero
        THEN Fail(s, <<"Total probability cannot be zero">>)
        ELSE Ok(s, Dist(pairAtoms(a)), <<>>)
    ELSE IF fn = FnADD \/ fn = FnCONVOLVE THEN
        IF n # 2
        THEN Fail(s, IF fn = FnADD THEN <<"ADD requires 2 args (A, B)">>
                     ELSE <<"CONVOLVE requires 2 args (d1, d2)">>)
        ELSE Unchecked(s, add(a[1], a[2]))
    ELSE IF fn = FnMUL THEN
        IF n # 2 THEN Fail(s, <<"MUL requires 2 args (A, B)">>)
        ELSE IF sc(1) THEN Unchecked(s, scale(a[2], x(1)))
        ELSE IF sc(2) THEN Unchecked(s, scale(a[1], x(2)))
        ELSE Fail(s, <<"MUL currently supports only Scalar * Dist or Dist * Scalar">>)
    ELSE IF fn = FnDIV THEN
        IF n # 2 THEN Fail(s, <<"DIV requires 2 args (A, B)">>)
        ELSE IF sc(2)
        THEN IF x(2) = Zero THEN Fail(s, <<"Division by Zero">>)
             ELSE Unchecked(s, scale(a[1], RInv(x(2))))
        ELSE IF sc(1) THEN Unchecked(s, scale(reciprocal(a[2]), x(1)))
        ELSE Fail(s, <<"DIV of two Distributions not supported">>)
    ELSE IF fn = FnBIN THEN
        IF n < 2 THEN Fail(s, <<"BIN requires at least 2 args (a, b, [p])">>)
        ELSE IF ~(sc(1) /\ sc(2) /\ (n > 2 => sc(3))) THEN Fail(s, ScalarMsg)
        ELSE Ok(s, Dist(<<Bin(x(1), x(2), IF n > 2 THEN x(3) ELSE One,
                              RDiv(RAdd(x(1), x(2)), I(2)), "uniform")>>), <<>>)
    ELSE IF fn = FnSCALE THEN
        IF n # 2 THEN Fail(s, <<"SCALE requires 2 args (A, k)">>)
        ELSE IF ~sc(2) THEN Fail(s, ScalarMsg)
        ELSE Unchecked(s, scale(a[1], x(2)))
    ELSE IF fn = FnMIX THEN
        IF n # 3 THEN Fail(s, <<"MIX requires 3 args (A, B, p)">>)
        ELSE IF ~sc(1) THEN Fail(s, ScalarMsg)
        ELSE Unchecked(s, mix(a[3], a[2], x(1)))
    ELSE IF fn = FnREDUCE THEN
        IF n < 2 THEN Fail(s, <<"REDUCE requires at least 2 args (A, targetN)">>)
        ELSE IF ~(sc(2) /\ (n > 2 => sc(3)) /\ (n > 3 => sc(4)) /\ (n > 5 => sc(6)))
        THEN Fail(s, ScalarMsg)
        ELSE reduced(args[1], s, ctx,
                     reduce(a[1], ReduceParams(x(2),
                                               IF n > 2 THEN x(3) ELSE Zero,
                                               IF n > 5 THEN x(6) ELSE Zero,
                                               IF n > 3 THEN x(4) ELSE R(1, 100),
                                               <<Zero>>)))
    ELSE IF fn = FnMEAN THEN
        IF n # 1 THEN Fail(s, <<"MEAN requires 1 arg (A)">>)
        ELSE Ok(s, Dist(<<Atom(mean(a[1]), One)>>), <<>>)
    ELSE IF fn = FnREF THEN
        IF n # 1 THEN Fail(s, <<"REF requires 1 arg">>)
        ELSE Ok(s, args[1].val, args[1].org)
    ELSE IF fn = FnSUB THEN
        IF n # 2 THEN Fail(s, <<"SUB requires 2 args (A, B)">>)
        ELSE Unchecked(s, sub(a[1], a[2]))
    ELSE IF fn = FnSHIFT THEN
        IF n # 2 THEN Fail(s, <<"SHIFT requires 2 args (Dist, k)">>)
        ELSE IF ~sc(2) THEN Fail(s, ScalarMsg)
        ELSE Unchecked(s, add(a[1], Dist(<<Atom(x(2), One)>>)))
    ELSE IF fn = FnCHOICE THEN
        IF n < 2 \/ n % 2 # 0
        THEN Fail(s, <<"CHOICE requires even args (v1, p1, v2, p2, ...)">>)
        ELSE IF ~allScalar THEN Fail(s, ScalarMsg)
        ELSE Unchecked(s, normalize(Dist(pairAtoms(a))))
    ELSE IF fn = FnBINOMIAL THEN
        IF n # 2 THEN Fail(s, <<"BINOMIAL requires 2 args (n, p)">>)
        ELSE IF ~sc(1) \/ ~sc(2) THEN Fail(s, ScalarMsg)
        ELSE binomial(s, RFloor(x(1)), x(2))
    ELSE IF fn = FnGEOM_SUM THEN
        IF n # 2 THEN Fail(s, <<"GEOM_SUM requires 2 args (Dist, p)">>)
        ELSE IF ~sc(2) THEN Fail(s, ScalarMsg)
        ELSE geomSum(s, ctx, a[1], x(2))
    ELSE IF fn = FnREPEAT_ADD THEN
        IF n # 2 THEN Fail(s, <<"REPEAT_ADD requires 2 args (Dist, N)">>)
        ELSE IF ~sc(2) THEN Fail(s, ScalarMsg)
        ELSE repeatAdd(s, ctx, args[1], a[1], RFloor(x(2)))
    ELSE Fail(s, <<"Unknown function: ">> \o name)

\* the steps of a failing evaluation keep the state of the failing step
RECURSIVE parseExpression(_, _, _)
RECURSIVE parseExpressionLoop(_, _, _, _, _)
RECURSIVE parseExpressionStep(_, _, _, _, _)
RECURSIVE parseExpressionNext(_, _, _)
RECURSIVE parseTerm(_, _, _)
RECURSIVE parseTermLoop(_, _, _, _, _)
RECURSIVE parseTermStep(_, _, _, _, _)
RECURSIVE parseTermNext(_, _, _)
RECURSIVE parseFactor(_, _, _)
RECURSIVE parseFunctionCall(_, _, _, _)
RECURSIVE configLimit(_, _, _)
RECURSIVE callWith(_, _, _, _)
RECURSIVE parseArgs(_, _, _, _)
RECURSIVE moreArgs(_, _, _)
RECURSIVE tryParseArg(_, _, _, _)
RECURSIVE pushCells(_, _, _)

\* Parser.parseExpression; T are the tokens
parseExpression(T, ctx, s) == parseExpressionLoop(T, ctx, <<>>, "", s)

\* this.parseTerm() of parseExpression: for left when op is "", else for right
\* in the while loop, op being the operator consumed and left the result so far
parseExpressionLoop(T, ctx, left, op, s) ==
    parseExpressionStep(T, ctx, left, op, parseTerm(T, ctx, s))

\* left = left.add(right) or left.sub(right), then checkSafety
parseExpressionStep(T, ctx, left, op, right) ==
    IF right.err # <<>> THEN right
    ELSE IF op = "" THEN parseExpressionNext(T, ctx, right)
    ELSE parseExpressionNext(T, ctx,
             checked(Unchecked(right.s,
                               IF op = "PLUS" THEN add(cur(left, right.s), cur(right, right.s))
                               ELSE sub(cur(left, right.s), cur(right, right.s))),
                     ctx))

\* the test of the while loop of parseExpression
parseExpressionNext(T, ctx, left) ==
    IF typeAt(T, left.s.pos) = "PLUS" \/ typeAt(T, left.s.pos) = "MINUS"
    THEN parseExpressionLoop(T, ctx, left, typeAt(T, left.s.pos), [left.s EXCEPT !.pos = @ + 1])
    ELSE left

parseTerm(T, ctx, s) == parseTermLoop(T, ctx, <<>>, "", s)

\* this.parseFactor() of parseTerm: for left when op is "", else for right
parseTermLoop(T, ctx, left, op, s) ==
    parseTermStep(T, ctx, left, op, parseFactor(T, ctx, s))

\* the MUL and DIV branches of parseTerm up to their checkSafety; l and r are
\* the components of left and right
termValue(s2, op, l, r) ==
    IF op = "MUL"
    THEN IF isScalar(r) THEN Unchecked(s2, scale(l, getScalar(r)))
         ELSE IF isScalar(l) THEN Unchecked(s2, scale(r, getScalar(l)))
         ELSE Fail(s2, <<"Multiplication of two Distributions not supported (Scalar required)">>)
    ELSE IF isScalar(r)
         THEN IF getScalar(r) = Zero THEN Fail(s2, <<"Division by Zero">>)
              ELSE Unchecked(s2, scale(l, RInv(getScalar(r))))
         ELSE IF isScalar(l) THEN Unchecked(s2, scale(reciprocal(r), getScalar(l)))
         ELSE Fail(s2, <<"Division of two Distributions not supported">>)

parseTermStep(T, ctx, left, op, right) ==
    IF right.err # <<>> THEN right
    ELSE IF op = "" THEN parseTermNext(T, ctx, right)
    ELSE parseTermNext(T, ctx,
             checked(termValue(right.s, op, cur(left, right.s), cur(right, right.s)), ctx))

\* the test of the while loop of parseTerm
parseTermNext(T, ctx, left) ==
    IF left.err # <<>> THEN left
    ELSE IF typeAt(T, left.s.pos) = "MUL" \/ typeAt(T, left.s.pos) = "DIV"
    THEN parseTermLoop(T, ctx, left, typeAt(T, left.s.pos), [left.s EXCEPT !.pos = @ + 1])
    ELSE left

\* the unary minus of parseFactor: factor.scale(-1)
negated(factor) ==
    IF factor.err # <<>> THEN factor
    ELSE Ok(factor.s, scale(cur(factor, factor.s), I(-1)), <<>>)

\* the parenthesis of parseFactor: this.expect("RPAREN") behind the expression
closeParen(T, expr) ==
    IF expr.err # <<>> THEN expr
    ELSE IF typeAt(T, expr.s.pos) # "RPAREN"
    THEN Fail(expr.s, expectMsg(T, expr.s.pos, "RPAREN"))
    ELSE [expr EXCEPT !.s.pos = @ + 1]

parseFactor(T, ctx, s) ==
    LET t == typeAt(T, s.pos)
        s1 == [s EXCEPT !.pos = @ + 1]
    IN IF t = "undefined" THEN Fail(s, <<"Unexpected end of input">>)
       ELSE IF t = "NUMBER" THEN Ok(s1, Dist(<<Atom(parseFloat(T[s.pos].value), One)>>), <<>>)
       ELSE IF t = "ID"
       THEN IF typeAt(T, s1.pos) = "LPAREN" THEN parseFunctionCall(T, ctx, s1, T[s.pos].value)
            ELSE getValue(s1, T[s.pos].value)
       ELSE IF t = "MINUS" THEN negated(parseFactor(T, ctx, s1))
       ELSE IF t = "LPAREN" THEN closeParen(T, parseExpression(T, ctx, s1))
       ELSE Fail(s, <<"Unexpected token: ", t>>)

\* args.push(this.ctx.getValue(id)) for the cells of an expanded range
pushCells(ids, args, s) ==
    IF ids = <<>> THEN [err |-> <<>>, args |-> args, s |-> s]
    ELSE pushCells(Tail(ids), Append(args, getValue(s, ids[1])), getValue(s, ids[1]).s)

\* tryParseArg for a range literal, range being what expandRange gave
pushRange(range, args, s) ==
    IF range.err # <<>> THEN [err |-> range.err, args |-> args, s |-> s]
    ELSE pushCells(range.cells, args, [s EXCEPT !.pos = @ + 3])

\* args.push(this.parseExpression())
pushArg(args, e) ==
    IF e.err # <<>> THEN [err |-> e.err, args |-> args, s |-> e.s]
    ELSE [err |-> <<>>, args |-> Append(args, e), s |-> e.s]

\* tryParseArg of parseFunctionCall: a range literal or an expression
tryParseArg(T, ctx, s, args) ==
    IF typeAt(T, s.pos) = "ID" /\ typeAt(T, s.pos + 1) = "COLON"
    THEN IF typeAt(T, s.pos + 2) # "ID"
         THEN [err |-> expectMsg(T, s.pos + 2, "ID"), args |-> args, s |-> s]
         ELSE pushRange(expandRange(T[s.pos].value, T[s.pos + 2].value), args, s)
    ELSE pushArg(args, parseExpression(T, ctx, s))

\* tryParseArg(), then one more after every COMMA
parseArgs(T, ctx, s, args) == moreArgs(T, ctx, tryParseArg(T, ctx, s, args))

\* the while loop behind tryParseArg(), r being what tryParseArg left
moreArgs(T, ctx, r) ==
    IF r.err # <<>> THEN r
    ELSE IF typeAt(T, r.s.pos) = "COMMA"
    THEN parseArgs(T, ctx, [r.s EXCEPT !.pos = @ + 1], r.args)
    ELSE r

\* CONFIG behind its second expression: the old limit is restored, then
\* this.expect("RPAREN")
configResult(T, oldLimit, result) ==
    IF result.err # <<>> THEN result
    ELSE IF typeAt(T, result.s.pos) # "RPAREN"
    THEN Fail([result.s EXCEPT !.lmc = oldLimit], expectMsg(T, result.s.pos, "RPAREN"))
    ELSE [result EXCEPT !.s.lmc = oldLimit, !.s.pos = @ + 1]

\* CONFIG behind its first expression, the limit
configLimit(T, ctx, limitDist) ==
    IF limitDist.err # <<>> THEN limitDist
    ELSE IF ~isScalar(cur(limitDist, limitDist.s)) THEN Fail(limitDist.s, ScalarMsg)
    ELSE IF typeAt(T, limitDist.s.pos) # "COMMA"
    THEN Fail(limitDist.s, expectMsg(T, limitDist.s.pos, "COMMA"))
    ELSE configResult(T, limitDist.s.lmc,
                      parseExpression(T, ctx,
                          [limitDist.s EXCEPT !.pos = @ + 1,
                                              !.lmc = getScalar(cur(limitDist, limitDist.s))]))

\* parseFunctionCall behind the arguments: this.expect("RPAREN") and the dispatch
callWith(T, ctx, name, r) ==
    IF r.err # <<>> THEN Fail(r.s, r.err)
    ELSE IF typeAt(T, r.s.pos) # "RPAREN"
    THEN Fail(r.s, expectMsg(T, r.s.pos, "RPAREN"))
    ELSE checked(dispatch(name, r.args, [r.s EXCEPT !.pos = @ + 1], ctx), ctx)

\* Parser.parseFunctionCall; s.pos is at the LPAREN
parseFunctionCall(T, ctx, s, name) ==
    IF typeAt(T, s.pos + 1) # "RPAREN" /\ toUpperCase(name) = FnCONFIG
    THEN configLimit(T, ctx, parseExpression(T, ctx, [s EXCEPT !.pos = @ + 1]))
    ELSE callWith(T, ctx, name,
                  IF typeAt(T, s.pos + 1) # "RPAREN"
                  THEN parseArgs(T, ctx, [s EXCEPT !.pos = @ + 1], <<>>)
                  ELSE [err |-> <<>>, args |-> <<>>, s |-> [s EXCEPT !.pos = @ + 1]])

ParserState(vals, order) ==
    [pos |-> 1, lmc |-> Undef, vals |-> vals, order |-> order, reads |-> {}]

\* the catch block of evaluate
rethrown(r) == IF r.err # <<>> THEN Fail(r.s, <<"Eval Error: ">> \o r.err) ELSE r

\* evaluate behind tokenize
evaluateTokens(tk, ctx, s0) ==
    IF tk.err # <<>> THEN Fail(s0, <<"Eval Error: ">> \o tk.err)
    ELSE rethrown(parseExpression(tk.tokens, ctx, s0))

\* evaluate(expr, ctx) with the cells as they are: a result whose err, if any,
\* is the message of the Error that evaluate throws
evaluate(expr, ctx, vals, order) ==
    IF expr = <<>> THEN Ok(ParserState(vals, order), Dist(<<>>), <<>>)
    ELSE evaluateTokens(tokenize(expr), ctx, ParserState(vals, order))

(***************************************************************************)
(* The graph (engine/graph.ts, engine/cell.ts)                             *)
(*                                                                         *)
(* A graph g is a record of the fields of class Graph: cells (the Map, as  *)
(* a function on the identifiers it holds), order (the Map's insertion     *)
(* order), dirtyTrack, config and, for the heap, share: share[c] is the    *)
(* set of cells whose value is the same Dist object as that of c.          *)
(* tasks are the recalculations suspended at their await, in the order in  *)
(* which their timers fire.  The fields evals, done and changed record     *)
(* what the last operation did; the program does not have them.            *)
(* Sets that the code iterates (dependencies, dependents, the dirty set of *)
(* a recalculation) are sequences without repetition, in insertion order.  *)
(***************************************************************************)
YieldEvery == 5

Cell(id) ==
    [id |-> id, rawInput |-> <<>>, value |-> Dist(<<>>), status |-> "ok", error |-> <<>>,
     dependencies |-> <<>>, dependents |-> <<>>]

NewGraph ==
    [cells |-> <<>>, order |-> <<>>, share |-> <<>>, dirtyTrack |-> {},
     config |-> [maxComponents |-> I(DefaultMaxComponents)], tasks |-> <<>>,
     evals |-> <<>>, done |-> <<>>, changed |-> {}, notes |-> <<>>,
     listeners |-> <<>>, posted |-> <<>>]

\* Graph.getCell: the graph with the cell in it
getCell(g, id) ==
    IF id \in DOMAIN g.cells THEN g
    ELSE [g EXCEPT !.cells = @ @@ (id :> Cell(id)),
                   !.order = Append(@, id),
                   !.share = @ @@ (id :> {id})]

markDirty(g, id) == [g EXCEPT !.dirtyTrack = @ \cup {id}]

\* a getDirtyAndClear that forgets dirtyTrack.clear()
getDirtyAndKeep(g) ==
    [g |-> g, res |-> {id \in g.dirtyTrack : id \in DOMAIN g.cells}]

\* Graph.getDirtyAndClear: .res are the cells returned (by their identifiers;
\* the array holds the Cell objects of the Map), .g the graph it leaves
getDirtyAndClear(g) ==
    [g |-> [g EXCEPT !.dirtyTrack = {}],
     res |-> {id \in g.dirtyTrack : id \in DOMAIN g.cells}]

\* what postUpdates sends of a cell: the value only of a cell that is ok
CellUpdate(c) ==
    [id |-> c.id, status |-> c.status,
     value |-> IF c.status = "ok" THEN [components |-> c.value] ELSE Undef,
     error |-> IF c.error = <<>> THEN Undef ELSE c.error,
     rawInput |-> c.rawInput]

\* postUpdates(cells): the UPDATE_CELLS message of the cells ids, which is
\* posted even when there is none
postUpdates(g, ids) ==
    [g EXCEPT !.posted = Append(@, [type |-> "UPDATE_CELLS",
                                    updates |-> {CellUpdate(g.cells[id]) : id \in ids}])]

\* the listener that the worker subscribes: it drains the dirty set and posts
\* the cells found
workerListener(g) ==
    LET r == getDirtyAndClear(g) IN postUpdates(r.g, r.res)

\* Graph.notifyListeners: every subscribed listener is called
notifyListeners(g) == IF g.listeners = <<>> THEN g ELSE workerListener(g)

\* the record of a step of the recalculation t: "notify" for
\* this.notifyListeners(), "evaluate" for this.evaluateCell(cell), "await" for
\* the await of the Execute loop, "resume" for its end and "propagate" for
\* the Propagate loop
note(g, kind, t) ==
    [(IF kind = "notify" THEN notifyListeners(g) ELSE g)
        EXCEPT !.notes = Append(@, [kind |-> kind, task |-> t.startId])]

\* a first loop of updateDependencies that removes nothing
keepOldDeps(g, id, oldDeps, newDeps) == g

\* the first loop of updateDependencies; cell is the object of the caller,
\* which a getCell here never replaces
RECURSIVE removeOldDeps(_, _, _, _)
removeOldDeps(g, id, oldDeps, newDeps) ==
    IF oldDeps = <<>> THEN g
    ELSE LET g1 == getCell(g, oldDeps[1]) IN
         removeOldDeps(
             IF oldDeps[1] \in RangeOf(newDeps) THEN g
             ELSE [g1 EXCEPT !.cells[oldDeps[1]].dependents = setDelete(@, id)],
             id, Tail(oldDeps), newDeps)

\* the second loop of updateDependencies
RECURSIVE addNewDeps(_, _, _, _)
addNewDeps(g, id, newDeps, oldDeps) ==
    IF newDeps = <<>> THEN g
    ELSE LET g1 == getCell(g, newDeps[1]) IN
         addNewDeps(
             IF newDeps[1] \in RangeOf(oldDeps) THEN g
             ELSE [g1 EXCEPT !.cells[newDeps[1]].dependents = setAdd(@, id)],
             id, Tail(newDeps), oldDeps)

\* Graph.updateDependencies(cell, newDeps), cell being that of id
updateDependencies(g, id, newDeps) ==
    LET old == g.cells[id].dependencies
        g1 == removeOldDeps(g, id, old, newDeps)
        g2 == addNewDeps(g1, id, newDeps, old)
    IN [g2 EXCEPT !.cells[id].dependencies = newDeps]

\* buildOrder of recalculate: the breadth-first search over dependents.
\* marked are the cells it gave status evaluating
RECURSIVE buildOrder(_, _, _, _)
buildOrder(g, queue, dirty, marked) ==
    IF queue = <<>> THEN [g |-> g, dirty |-> dirty, marked |-> marked]
    ELSE LET curr == Head(queue) IN
         IF curr \in RangeOf(dirty) THEN buildOrder(g, Tail(queue), dirty, marked)
         ELSE LET g1 == getCell(g, curr)
                  circ == g1.cells[curr].status = "circular"
                  g2 == IF circ THEN g1
                        ELSE markDirty([g1 EXCEPT !.cells[curr].status = "evaluating"], curr)
              IN buildOrder(g2, Tail(queue) \o g1.cells[curr].dependents,
                            Append(dirty, curr),
                            IF circ THEN marked ELSE marked \cup {curr})

\* the value of an input that is no formula: the atom of its number, or the
\* empty Dist
numberResult(s0, num) ==
    IF num # NaN THEN Ok(s0, Dist(<<Atom(num, One)>>), <<>>)
    ELSE Ok(s0, Dist(<<>>), <<>>)

numberOf(trimmed) == IF trimmed = <<>> THEN NaN ELSE Number(trimmed)

\* what evaluateCell computes for the cell: evaluate() for a formula, the
\* number or the empty Dist for any other input
cellResult(g, id) ==
    LET raw == g.cells[id].rawInput
        vals == [c \in DOMAIN g.cells |-> g.cells[c].value]
    IN IF raw # <<>> /\ raw[1] = "="
       THEN evaluate(dropN(raw, 1), [maxComponents |-> g.config.maxComponents, share |-> g.share],
                     vals, g.order)
       ELSE numberResult(ParserState(vals, g.order), numberOf(trim(raw)))

\* the cells that getValue created during an evaluation
RECURSIVE createCells(_, _)
createCells(g, ids) ==
    IF ids = <<>> THEN g ELSE createCells(getCell(g, ids[1]), Tail(ids))

\* the graph when the evaluation has run: cells were created, and Dist
\* objects that REDUCE normalized have changed
afterEvaluation(g, r) ==
    [createCells(g, SubSeq(r.s.order, Len(g.order) + 1, Len(r.s.order)))
       EXCEPT !.cells = [c \in DOMAIN @ |-> [@[c] EXCEPT !.value = r.s.vals[c]]]]

\* cell.value = ...; cell.status = "ok", or the catch block of evaluateCell
assignResult(g, id, r) ==
    IF r.err = <<>>
    THEN [g EXCEPT !.cells[id].value = cur(r, r.s),
                   !.cells[id].status = "ok",
                   !.share = IF r.org = id THEN @
                             ELSE IF r.org = <<>>
                             THEN [c \in DOMAIN @ |->
                                     IF c = id THEN {id} ELSE @[c] \ {id}]
                             ELSE [c \in DOMAIN @ |->
                                     IF c = id \/ c \in @[r.org]
                                     THEN @[r.org] \cup {id}
                                     ELSE @[c] \ {id}]]
    ELSE [g EXCEPT !.cells[id].status = "error",
                   !.cells[id].error = r.err]

\* this.markDirty(cell.id), and the record of the evaluation: g is the graph
\* before it, g3 the graph after it
recorded(g, g3, id, t) ==
    [markDirty(g3, id) EXCEPT
        !.evals = Append(@, [id |-> id, task |-> t.startId,
                             waiting |-> {d \in RangeOf(g.cells[id].dependencies) \cap t.marked :
                                             d \in DOMAIN g.cells /\ g.cells[d].status = "evaluating"},
                             status |-> g3.cells[id].status,
                             error |-> g3.cells[id].error,
                             before |-> g.cells[id].value,
                             after |-> g3.cells[id].value])]

\* evaluateCell for a cell that is not circular, r being what it computes
evaluatedCell(g, id, t, r) == recorded(g, assignResult(afterEvaluation(g, r), id, r), id, t)

\* an evaluateCell that returns at once for every cell
evaluateNothing(g, id, t) == g

\* Graph.evaluateCell for the cell of id, in the recalculation task t
evaluateCell(g, id, t) ==
    IF g.cells[id].status = "circular" THEN g
    ELSE evaluatedCell(g, id, t, cellResult(g, id))

\* the Propagate loop of recalculate over the dependents of the evaluated cell
RECURSIVE propagate(_, _)
propagate(t, deps) ==
    IF deps = <<>> THEN t
    ELSE IF deps[1] \in RangeOf(t.dirtySet)
    THEN LET d == t.inDegree[deps[1]] - 1 IN
         propagate([t EXCEPT !.inDegree[deps[1]] = d,
                             !.execQueue = IF d = 0 THEN Append(@, deps[1]) ELSE @],
                   Tail(deps))
    ELSE propagate(t, Tail(deps))

\* a cycle check that marks only the cell the recalculation started from
markStartCircular(g, t, ids) ==
    IF t.startId \in RangeOf(ids) /\ t.inDegree[t.startId] > 0
    THEN markDirty([getCell(g, t.startId) EXCEPT !.cells[t.startId].status = "circular"],
                   t.startId)
    ELSE g

\* the loop that marks the cells left with a positive in-degree circular
RECURSIVE markCircular(_, _, _)
markCircular(g, t, ids) ==
    IF ids = <<>> THEN g
    ELSE IF t.inDegree[ids[1]] > 0
    THEN LET g1 == getCell(g, ids[1]) IN
         markCircular(markDirty([g1 EXCEPT !.cells[ids[1]].status = "circular"], ids[1]),
                      t, Tail(ids))
    ELSE markCircular(g, t, Tail(ids))

\* recalculate after its Execute loop: the cycle check and the last notification
finishRecalculate(g, t) ==
    LET g1 == IF t.processedCount < Len(t.dirtySet) THEN markCircular(g, t, t.dirtySet) ELSE g
    IN [note(g1, "notify", t) EXCEPT !.done = [id |-> t.startId, closure |-> RangeOf(t.dirtySet),
                                                alone |-> t.alone]]

RECURSIVE execLoop(_, _)
\* an Execute loop that awaits one evaluation late
execNextLate(g2, t1, currId) ==
    IF t1.processedCount % (YieldEvery + 1) = 0
    THEN [note(g2, "await", t1) EXCEPT !.tasks = Append(@, t1)]
    ELSE execLoop(note(g2, "propagate", t1), propagate(t1, g2.cells[currId].dependents))

\* the Execute loop behind evaluateCell: the await after every fifth
\* evaluation, else the Propagate loop and the next round
execNext(g2, t1, currId) ==
    IF t1.processedCount % YieldEvery = 0
    THEN [note(g2, "await", t1) EXCEPT !.tasks = Append(@, t1)]
    ELSE execLoop(note(g2, "propagate", t1), propagate(t1, g2.cells[currId].dependents))

\* the Execute loop of recalculate, up to the next await or to the end
execLoop(g, t) ==
    IF t.execQueue = <<>> THEN finishRecalculate(g, t)
    ELSE execNext(note(evaluateCell(getCell(g, Head(t.execQueue)), Head(t.execQueue), t),
                       "evaluate", t),
                  [t EXCEPT !.execQueue = Tail(@), !.processedCount = @ + 1,
                            !.curr = Head(t.execQueue)],
                  Head(t.execQueue))

\* steps 2a and 2b of recalculate: the in-degree map and the queue, bo being
\* what buildOrder gave
newTask(g, startId, bo) ==
    LET inDegree == [id \in RangeOf(bo.dirty) |->
                        Cardinality({d \in RangeOf(bo.dirty) :
                                        id \in RangeOf(bo.g.cells[d].dependents)})]
    IN [startId |-> startId, dirtySet |-> bo.dirty, marked |-> bo.marked,
        inDegree |-> inDegree,
        execQueue |-> SelectSeq(bo.dirty, LAMBDA id : inDegree[id] = 0),
        processedCount |-> 0, curr |-> <<>>,
        stale |-> FALSE, staleDependents |-> <<>>,
        alone |-> g.tasks = <<>>]

\* recalculate behind buildOrder
recalculateFrom(g, startId, bo) ==
    execLoop(note(bo.g, "notify", [startId |-> startId]), newTask(g, startId, bo))

\* Graph.recalculate(startId) up to its first await or to its end
recalculate(g, startId) == recalculateFrom(g, startId, buildOrder(g, <<startId>>, <<>>, {}))

\* a recalculation resumed after its await: the notification, the Propagate
\* loop of the cell evaluated before the await, and on with the Execute loop.
\* Its cell is the object it got before the await, also when the Map no
\* longer holds it
resumeRecalculate(g) ==
    LET t == Head(g.tasks)
        g1 == [g EXCEPT !.tasks = Tail(@), !.done = <<>>]
        deps == IF t.stale THEN t.staleDependents ELSE g1.cells[t.curr].dependents
    IN execLoop(note(note(note(g1, "resume", t), "notify", t), "propagate", t),
                propagate(t, deps))

\* Graph.setCellInput(id, input)
setCellInput(g, id, input) ==
    LET g0 == getCell([g EXCEPT !.done = <<>>], id) IN
    IF g0.cells[id].rawInput = input THEN g0
    ELSE LET g1 == markDirty([g0 EXCEPT !.cells[id].rawInput = input,
                                        !.changed = @ \cup {id},
                                        !.tasks = [i \in DOMAIN @ |-> [@[i] EXCEPT !.alone = FALSE]]],
                             id)
             g2 == updateDependencies(g1, id, detectDependencies(input))
         IN recalculate(g2, id)

\* Graph.setGlobalConfig
setGlobalConfig(g, newConfig) == [g EXCEPT !.config = newConfig]

\* JSON.stringify writes a number that is not finite as null
jsonNumber(x) == IF x = Undef \/ x[2] = 0 THEN Undef ELSE x

\* Graph.toJSON: the document, its cells in the order of the Map
toJSON(g) ==
    [version |-> 1,
     config |-> [maxComponents |-> jsonNumber(g.config.maxComponents)],
     cells |-> LET withInput == SelectSeq(g.order, LAMBDA id : g.cells[id].rawInput # <<>>)
               IN [i \in 1..Len(withInput) |-> <<withInput[i], g.cells[withInput[i]].rawInput>>]]

\* the loop of fromJSON over Object.entries(data.cells)
RECURSIVE loadCells(_, _)
loadCells(g, entries) ==
    IF entries = <<>> THEN g
    ELSE loadCells(setCellInput(g, entries[1][1], entries[1][2]), Tail(entries))

\* Graph.fromJSON for a document that JSON.parse accepts as an object; the
\* cells of suspended recalculations stay with them when the Map is cleared
fromJSON(g, data) ==
    LET g1 == IF data.config # Undef THEN setGlobalConfig(g, data.config) ELSE g
        detach(t) == IF t.stale THEN t
                     ELSE [t EXCEPT !.stale = TRUE, !.alone = FALSE,
                                    !.staleDependents = g.cells[t.curr].dependents]
        g2 == [g1 EXCEPT
                 !.tasks = [i \in DOMAIN g1.tasks |-> detach(g1.tasks[i])],
                 !.cells = <<>>, !.order = <<>>, !.share = <<>>,
                 !.changed = {}, !.done = <<>>]
    IN IF data.cells # Undef THEN loadCells(g2, data.cells) ELSE g2

(***************************************************************************)
(* The reducer on its own: reduce() applied to a Dist of atoms and bins    *)
(***************************************************************************)
MaxComps == 3

RdMasses == {R(1, 4), R(1, 2)}
RdComponents ==
    {Atom(I(x), p) : x \in {-1, 0, 2}, p \in RdMasses}
      \cup {Bin(I(ab[1]), I(ab[2]), p, RDiv(I(ab[1] + ab[2]), I(2)), "uniform") :
               ab \in {<<-2, 1>>, <<-3, -1>>, <<1, 3>>}, p \in RdMasses}
      \cup {TailC("left", I(-3), R(1, 4), One), TailC("right", I(3), R(1, 4), One)}

RECURSIVE SeqsUpTo(_, _)
SeqsUpTo(S, n) ==
    IF n = 0 THEN {<<>>}
    ELSE LET shorter == SeqsUpTo(S, n - 1)
         IN shorter \cup {Append(s, c) : s \in shorter, c \in S}

RdDists == {Dist(s) : s \in SeqsUpTo(RdComponents, MaxComps)}
RdTargets == 1..MaxComps
RdBoundaries == {Undef, <<Zero>>, <<I(1)>>}

RdIdle ==
    /\ rdIn = <<>>
    /\ rdParams = ReduceParams(Zero, Undef, Undef, Undef, Undef)
    /\ rdOrig = <<>>
    /\ rdOut = <<>>
    /\ rdDone = FALSE

EvIdle == evInput = <<>> /\ evCtx = <<>> /\ evOut = <<>> /\ evDone = FALSE

RgIdle == rgStart = <<>> /\ rgEnd = <<>> /\ rgOut = <<>> /\ rgDone = FALSE

\* no WorkerClient and no worker
WkIdle ==
    /\ mirror = <<>>
    /\ toWorker = <<>>
    /\ toClient = <<>>
    /\ awaited = {}
    /\ nCalls = 0

\* the graph as a record of its fields
G ==
    [cells |-> cells, order |-> cellOrder, share |-> share, dirtyTrack |-> dirtyTrack,
     config |-> config, tasks |-> tasks, evals |-> evals, done |-> done, changed |-> changed,
     notes |-> notes, listeners |-> NewGraph.listeners, posted |-> <<>>]

\* the state after new Graph()
GrIdle ==
    /\ cells = NewGraph.cells
    /\ cellOrder = NewGraph.order
    /\ share = NewGraph.share
    /\ dirtyTrack = NewGraph.dirtyTrack
    /\ config = NewGraph.config
    /\ tasks = NewGraph.tasks
    /\ evals = NewGraph.evals
    /\ done = NewGraph.done
    /\ changed = NewGraph.changed
    /\ notes = NewGraph.notes
    /\ nOps = 0
    /\ drained = <<>>
    /\ nTimers = 0

InitReduce ==
    /\ rdIn \in RdDists
    /\ rdParams \in {ReduceParams(I(n), Undef, Undef, Undef, b) :
                        n \in RdTargets, b \in RdBoundaries}
    /\ rdOrig = rdIn
    /\ rdOut = <<>>
    /\ rdDone = FALSE
    /\ EvIdle
    /\ GrIdle
    /\ RgIdle
    /\ WkIdle

\* what the call leaves: the caller's Dist, normalized, and the Dist returned
RdReturn(r) == rdIn' = r.dist /\ rdOut' = r.out

\* the call reduce(rdIn, rdParams)
RdReduce ==
    /\ ~rdDone
    /\ RdReturn(reduce(rdIn, rdParams))
    /\ rdDone' = TRUE
    /\ UNCHANGED <<rdParams, rdOrig, evars, gvars, xvars, wvars>>

NextReduce == RdReduce

SpecReduce == InitReduce /\ [][NextReduce]_vars

(***************************************************************************)
(* The evaluator on its own: evaluateCell's evaluation of one raw input    *)
(* over the cells A1, A2 and A3                                            *)
(***************************************************************************)
EvInputs ==
    {<<"=", "1", "+", "2", "*", "3">>,
     <<"=", "A", "1", "+", "A", "2">>,
     <<"=", "A", "1", "+", "A", "2", "+", "A", "1">>,
     <<"=", "N", "O", "R", "M", "A", "L", "(", "0", ",", "1", ")">>,
     <<"=", "C", "O", "N", "F", "I", "G", "(", "1", "0", ",", "N", "O", "R", "M", "A", "L", "(", "0", ",", "1", ")", ")">>,
     <<"=", "D", "I", "S", "C", "R", "E", "T", "E", "(", "1", ",", "1", ",", "2", ",", "1", ",", "3", ",", "1", ")">>,
     <<"=", "D", "I", "S", "C", "R", "E", "T", "E", "(", "A", "1", ":", "A", "3", ",", "1", ")">>,
     <<"=", "A", "D", "D", "(", "A", "2", ":", "A", "3", ")">>,
     <<"=", "S", "U", "B", "(", "A", "1", ",", "1", ")">>,
     <<"=", "M", "I", "X", "(", "0", ".", "2", "5", ",", "A", "1", ",", "A", "2", ")">>,
     <<"=", "R", "E", "D", "U", "C", "E", "(", "A", "1", ",", "1", ")">>,
     <<"=", "U", "N", "I", "F", "O", "R", "M", "(", "0", ",", "1", ")", "+", "A", "1">>,
     <<"=", "A", "1", "*", "2">>,
     <<"=", "2", "/", "A", "1">>,
     <<"=", "M", "U", "L", "(", "A", "1", ",", "A", "2", ")">>,
     <<"=", "D", "I", "V", "(", "A", "1", ",", "0", ")">>,
     <<"=", "B", "I", "N", "(", "0", ",", "2", ",", "0", ".", "5", ")">>,
     <<"=", "S", "C", "A", "L", "E", "(", "A", "1", ",", "2", ")">>,
     <<"=", "S", "H", "I", "F", "T", "(", "A", "1", ",", "1", ")">>,
     <<"=", "C", "H", "O", "I", "C", "E", "(", "1", ",", "1", ",", "2", ",", "3", ")">>,
     <<"=", "M", "E", "A", "N", "(", "A", "1", ")">>,
     <<"=", "R", "E", "F", "(", "A", "1", ")">>,
     <<"=", "C", "O", "N", "S", "T", "(", "A", "3", ")">>,
     <<"=", "C", "O", "N", "V", "O", "L", "V", "E", "(", "A", "1", ",", "A", "1", ")">>,
     <<"=", "-", "(", "A", "1", ")">>,
     <<"=", "F", "(", "1", ")">>,
     <<"=", "(", "A", "1">>,
     <<"=", "A", "1", "-", "A", "2">>,
     <<"=", "B", "I", "N", "O", "M", "I", "A", "L", "(", "3", ",", "0", ".", "5", ")">>,
     <<"=", "C", "O", "N", "F", "I", "G", "(", "2", ",", "B", "I", "N", "O", "M", "I", "A", "L", "(", "3", ",", "0", ".", "5", ")", ")">>,
     <<"=", "B", "I", "N", "O", "M", "I", "A", "L", "(", "2", ",", "1", ")">>,
     <<"=", "C", "O", "N", "F", "I", "G", "(", "1", "0", ",", "A", "1", "+", "A", "2", "+", "A", "1", ")">>,
     <<"=", "B", "I", "N", "(", "2", ",", "0", ")">>,
     <<"=", "U", "N", "I", "F", "O", "R", "M", "(", "1", ",", "1", ")">>,
     <<"=", "R", "E", "P", "E", "A", "T", "_", "A", "D", "D", "(", "A", "1", ",", "2", ")">>,
     <<"=", "R", "E", "P", "E", "A", "T", "_", "A", "D", "D", "(", "A", "1", ",", "3", ")">>,
     <<"=", "R", "E", "P", "E", "A", "T", "_", "A", "D", "D", "(", "A", "2", ",", "5", ")">>,
     <<"=", "R", "E", "P", "E", "A", "T", "_", "A", "D", "D", "(", "A", "1", ",", "1", ")">>,
     <<"=", "R", "E", "P", "E", "A", "T", "_", "A", "D", "D", "(", "A", "1", ",", "0", ")">>,
     <<"=", "R", "E", "P", "E", "A", "T", "_", "A", "D", "D", "(", "A", "1", ",", "-", "2", ")">>,
     <<"=", "R", "E", "P", "E", "A", "T", "_", "A", "D", "D", "(", "A", "1", ",", "2", ".", "5", ")">>,
     <<"=", "C", "O", "N", "F", "I", "G", "(", "2", "0", ",", "G", "E", "O", "M", "_", "S", "U", "M", "(", "A", "3", ",", "0", ".", "5", ")", ")">>,
     <<"=", "G", "E", "O", "M", "_", "S", "U", "M", "(", "A", "1", ",", "0", ".", "0", "1", "5", "6", "2", "5", ")">>,
     <<"=", "G", "E", "O", "M", "_", "S", "U", "M", "(", "A", "1", ",", "0", ")">>,
     <<"=", "G", "E", "O", "M", "_", "S", "U", "M", "(", "A", "1", ",", "1", ")">>,
     <<"=", "G", "E", "O", "M", "_", "S", "U", "M", "(", "A", "1", ",", "-", "0", ".", "5", ")">>}

A1 == <<"A", "1">>
A2 == <<"A", "2">>
A3 == <<"A", "3">>

EvCells ==
    {(A1 :> Dist(<<Atom(I(1), R(1, 2)), Atom(I(3), R(1, 4))>>)) @@ (A2 :> Dist(<<Atom(I(2), One)>>))
        @@ (A3 :> Dist(<<Atom(I(1), One)>>)),
     (A1 :> Dist(<<Bin(I(-1), I(1), R(1, 2), Zero, "uniform"), Atom(Zero, R(1, 2))>>))
        @@ (A2 :> Dist(<<Atom(R(1, 2), One)>>)) @@ (A3 :> Dist(<<Atom(I(2), One)>>))}

EvLimits == {Undef, I(1), I(2), I(10)}

InitEval ==
    /\ evInput \in EvInputs
    /\ evCtx \in {[maxComponents |-> m, vals |-> v] : m \in EvLimits, v \in EvCells}
    /\ evOut = <<>>
    /\ evDone = FALSE
    /\ RdIdle
    /\ GrIdle
    /\ RgIdle
    /\ WkIdle

\* evaluateExpression(rawInput.substring(1)) as evaluateCell calls it, every
\* cell holding a Dist object of its own
EvEvaluate ==
    /\ ~evDone
    /\ evOut' = evaluate(dropN(evInput, 1),
                         [maxComponents |-> evCtx.maxComponents,
                          share |-> [c \in DOMAIN evCtx.vals |-> {c}]],
                         evCtx.vals, <<A1, A2, A3>>)
    /\ evDone' = TRUE
    /\ UNCHANGED <<evInput, evCtx, rvars, gvars, xvars, wvars>>

NextEval == EvEvaluate

SpecEval == InitEval /\ [][NextEval]_vars

(***************************************************************************)
(* Range expansion on its own: expandRange() applied to two identifiers    *)
(***************************************************************************)
RgIds ==
    {<<"A", "1">>, <<"B", "3">>, <<"C", "2">>, <<"b", "1">>, <<"Z", "2">>, <<"A", "A", "1">>,
     <<"A", "B", "3">>, <<"A", "1", "2">>, <<"a", "0", "2">>}

InitRange ==
    /\ rgStart \in RgIds
    /\ rgEnd \in RgIds
    /\ rgOut = <<>>
    /\ rgDone = FALSE
    /\ RdIdle
    /\ EvIdle
    /\ GrIdle
    /\ WkIdle

\* the call expandRange(rgStart, rgEnd)
RgExpand ==
    /\ ~rgDone
    /\ rgOut' = expandRange(rgStart, rgEnd)
    /\ rgDone' = TRUE
    /\ UNCHANGED <<rgStart, rgEnd, rvars, evars, gvars, wvars>>

NextRange == RgExpand

SpecRange == InitRange /\ [][NextRange]_vars

(***************************************************************************)
(* The graph: inputs, loads and the resumption of suspended recalculations *)
(***************************************************************************)
MaxOps == 4

InputChoices ==
    {<<<<"A", "1">>, <<"=", "A", "2">>>>,
     <<<<"A", "2">>, <<"=", "A", "1">>>>,
     <<<<"A", "2">>, <<"=", "B", "I", "N", "(", "0", ",", "2", ",", "0", ".", "5", ")">>>>,
     <<<<"A", "1">>, <<"=", "R", "E", "D", "U", "C", "E", "(", "A", "2", ",", "1", ")", "+", "F", "(", "1", ")">>>>,
     <<<<"A", "1">>, <<"5">>>>,
     <<<<"B", "5">>, <<"=", "A", "1", "+", "B", "6">>>>,
     <<<<"A", "3">>, <<"=", "A", "3", "+", "A", "1">>>>,
     <<<<"B", "5">>, <<"=", "R", "E", "D", "U", "C", "E", "(", "A", "2", ",", "1", ")">>>>}

\* a saved sheet: A1 and six cells that read it
StarDoc ==
    [version |-> 1, config |-> [maxComponents |-> I(DefaultMaxComponents)],
     cells |-> <<<<<<"A", "1">>, <<"1">>>>,
               <<<<"B", "1">>, <<"=", "A", "1">>>>,
               <<<<"B", "2">>, <<"=", "A", "1">>>>,
               <<<<"B", "3">>, <<"=", "A", "1">>>>,
               <<<<"B", "4">>, <<"=", "A", "1">>>>,
               <<<<"B", "5">>, <<"=", "A", "1">>>>,
               <<<<"B", "6">>, <<"=", "A", "1">>>>>>]

\* a document of another version, and one without a version
VersionTwoDoc ==
    [version |-> 2, config |-> [maxComponents |-> I(DefaultMaxComponents)],
     cells |-> <<<<<<"A", "1">>, <<"5">>>>>>]
NoVersionDoc ==
    [config |-> [maxComponents |-> I(DefaultMaxComponents)],
     cells |-> <<<<<<"A", "1">>, <<"5">>>>>>]

Install(g) ==
    /\ cells' = g.cells
    /\ cellOrder' = g.order
    /\ share' = g.share
    /\ dirtyTrack' = g.dirtyTrack
    /\ config' = g.config
    /\ tasks' = g.tasks
    /\ evals' = g.evals
    /\ done' = g.done
    /\ changed' = g.changed
    /\ notes' = g.notes

Init == GrIdle /\ RdIdle /\ EvIdle /\ RgIdle /\ WkIdle

\* a SET_INPUT: Graph.setCellInput(id, input), up to the first await of its
\* recalculation
SetInput(id, input) ==
    /\ nOps < MaxOps
    /\ Install(setCellInput([G EXCEPT !.evals = <<>>, !.notes = <<>>], id, input))
    /\ nOps' = nOps + 1
    /\ drained' = <<>>
    /\ UNCHANGED <<nTimers, rvars, evars, xvars, wvars>>

\* a LOAD_JSON: Graph.fromJSON(JSON.stringify(data))
LoadJSON(data) ==
    /\ nOps < MaxOps
    /\ Install(fromJSON([G EXCEPT !.evals = <<>>, !.notes = <<>>], data))
    /\ nOps' = nOps + 1
    /\ drained' = <<>>
    /\ UNCHANGED <<nTimers, rvars, evars, xvars, wvars>>

\* the timer of the oldest suspended recalculation fires
Resume ==
    /\ tasks # <<>>
    /\ Install(resumeRecalculate([G EXCEPT !.evals = <<>>, !.notes = <<>>]))
    /\ drained' = <<>>
    /\ nTimers' = nTimers + 1
    /\ UNCHANGED <<nOps, rvars, evars, xvars, wvars>>

\* what a call of getDirtyAndClear leaves, r being its result
Drained(had, r) ==
    /\ Install(r.g)
    /\ drained' = <<[had |-> had, res |-> r.res]>>

\* a consumer drains the dirty set: Graph.getDirtyAndClear()
DrainDirty ==
    /\ Drained(dirtyTrack, getDirtyAndClear([G EXCEPT !.evals = <<>>, !.notes = <<>>]))
    /\ UNCHANGED <<nOps, nTimers, rvars, evars, xvars, wvars>>

Next ==
    \/ \E c \in InputChoices : SetInput(c[1], c[2])
    \/ \E data \in {StarDoc, toJSON(G), VersionTwoDoc, NoVersionDoc} : LoadJSON(data)
    \/ Resume
    \/ DrainDirty

Spec == Init /\ [][Next]_vars

\* the graph under inputs alone: no document is loaded.  It starts empty
\* or as the inputs A1 = 1, B1 = A1, ..., B6 = A1 leave it (each of these
\* recalculations ends without an await)
StarGraph == loadCells(NewGraph, StarDoc.cells)

InitInputs ==
    /\ \E g \in {NewGraph, StarGraph} :
          /\ cells = g.cells
          /\ cellOrder = g.order
          /\ share = g.share
          /\ dirtyTrack = g.dirtyTrack
          /\ config = g.config
          /\ tasks = g.tasks
          /\ evals = g.evals
          /\ done = g.done
          /\ changed = g.changed
          /\ notes = g.notes
    /\ nOps = 0
    /\ drained = <<>>
    /\ nTimers = 0
    /\ RdIdle
    /\ EvIdle
    /\ RgIdle
    /\ WkIdle

NextInputs ==
    \/ \E c \in InputChoices : SetInput(c[1], c[2])
    \/ Resume
    \/ DrainDirty

SpecInputs == InitInputs /\ [][NextInputs]_vars

\* Resume as far as the count of timer callbacks goes: a step changes
\* nTimers if and only if it is a step of Resume, and one is possible if and
\* only if a recalculation is suspended
TimerFires == tasks # <<>> /\ nTimers' = nTimers + 1

\* the same with the timers: the callback of the setTimeout(resolve, 0) that
\* a recalculation awaits is run by the event loop, so a suspended
\* recalculation does not stay suspended for ever
FairInputs == SpecInputs /\ WF_nTimers(TimerFires)

\* inputs, loads and drains with the timers
FairSpec == Spec /\ WF_nTimers(TimerFires)

(***************************************************************************)
(* The WorkerClient and the worker that owns the graph                     *)
(***************************************************************************)
MaxCalls == 3

\* the calls setCellInput(id, val) that the client makes
ClientInputs ==
    {<<<<"A", "1">>, <<"5">>>>,
     <<<<"A", "2">>, <<"=", "A", "1">>>>,
     <<<<"A", "2">>, <<>>>>}

\* the documents that the client loads
ClientDocs == {StarDoc}

\* WorkerClient.getCell: the cells of the client with the cell in them
clientCell(mir, id) == IF id \in DOMAIN mir THEN mir ELSE mir @@ (id :> Cell(id))

\* the loop of WorkerClient.fromJSON over data.cells
RECURSIVE clientLoad(_, _)
clientLoad(mir, entries) ==
    IF entries = <<>> THEN mir
    ELSE clientLoad([clientCell(mir, entries[1][1]) EXCEPT ![entries[1][1]].rawInput = entries[1][2]],
                    Tail(entries))

\* the body of the loop of WorkerClient.handleUpdates; up.rawInput is a
\* string, the empty one included, and so is never undefined
applyUpdate(c, up) ==
    [c EXCEPT !.status = up.status,
              !.error = IF up.error # Undef THEN up.error ELSE @,
              !.value = IF up.value # Undef THEN Dist(up.value.components) ELSE @,
              !.rawInput = up.rawInput]

\* WorkerClient.handleUpdates: an UPDATE_CELLS message has one update for a cell
handleUpdates(mir, updates) ==
    [id \in DOMAIN mir \cup {u.id : u \in updates} |->
        IF \E u \in updates : u.id = id
        THEN applyUpdate(clientCell(mir, id)[id], CHOOSE u \in updates : u.id = id)
        ELSE mir[id]]

\* postFullUpdate of the worker: every cell of the graph is posted
postFullUpdate(g) == postUpdates(g, DOMAIN g.cells)

\* the graph of the worker, to which its listener is subscribed
WorkerGraph == [G EXCEPT !.evals = <<>>, !.notes = <<>>, !.listeners = <<"worker">>]

\* ctx.onmessage of the worker, up to the first await of a recalculation
workerOnMessage(g, action) ==
    IF action.type = "SET_INPUT" THEN setCellInput(g, action.id, action.val)
    ELSE postFullUpdate(fromJSON(g, action.json))

\* what a task of the worker leaves: the graph, and its messages posted
WorkerRan(g) ==
    /\ Install(g)
    /\ toClient' = toClient \o g.posted
    /\ drained' = <<>>

\* the state after new WorkerClient(): the worker has started and posted READY
InitWorker ==
    /\ GrIdle
    /\ RdIdle
    /\ EvIdle
    /\ RgIdle
    /\ mirror = <<>>
    /\ toWorker = <<>>
    /\ toClient = <<[type |-> "READY"]>>
    /\ awaited = {}
    /\ nCalls = 0

\* WorkerClient.setCellInput(id, val)
ClientSetInput(id, val) ==
    /\ nCalls < MaxCalls
    /\ nCalls' = nCalls + 1
    /\ IF clientCell(mirror, id)[id].rawInput = val
       THEN /\ mirror' = clientCell(mirror, id)
            /\ UNCHANGED <<toWorker, awaited>>
       ELSE /\ mirror' = [clientCell(mirror, id) EXCEPT ![id].rawInput = val,
                                                       ![id].status = "evaluating"]
            /\ toWorker' = Append(toWorker, [type |-> "SET_INPUT", id |-> id, val |-> val])
            /\ awaited' = awaited \cup {id}
    /\ UNCHANGED <<toClient, rvars, evars, gvars, xvars>>

\* WorkerClient.fromJSON(JSON.stringify(data))
ClientFromJSON(data) ==
    /\ nCalls < MaxCalls
    /\ nCalls' = nCalls + 1
    /\ toWorker' = Append(toWorker, [type |-> "LOAD_JSON", json |-> data])
    /\ mirror' = clientLoad(mirror, data.cells)
    /\ UNCHANGED <<toClient, awaited, rvars, evars, gvars, xvars>>

\* the worker handles its oldest message
WorkerOnMessage ==
    /\ toWorker # <<>>
    /\ toWorker' = Tail(toWorker)
    /\ \E g \in {workerOnMessage(WorkerGraph, Head(toWorker))} : WorkerRan(g)
    /\ nOps' = nOps + 1
    /\ UNCHANGED <<nTimers, mirror, awaited, nCalls, rvars, evars, xvars>>

\* the timer of the oldest suspended recalculation of the worker fires
WorkerTimer ==
    /\ tasks # <<>>
    /\ \E g \in {resumeRecalculate(WorkerGraph)} : WorkerRan(g)
    /\ nTimers' = nTimers + 1
    /\ UNCHANGED <<nOps, toWorker, mirror, awaited, nCalls, rvars, evars, xvars>>

\* worker.onmessage of the client handles the oldest message of the worker
ClientOnMessage ==
    /\ toClient # <<>>
    /\ toClient' = Tail(toClient)
    /\ LET event == Head(toClient) IN
       IF event.type = "UPDATE_CELLS"
       THEN /\ mirror' = handleUpdates(mirror, event.updates)
            /\ awaited' = awaited \ {u.id : u \in {v \in event.updates : v.status # "evaluating"}}
       ELSE UNCHANGED <<mirror, awaited>>
    /\ UNCHANGED <<toWorker, nCalls, rvars, evars, gvars, xvars>>

NextWorker ==
    \/ \E c \in ClientInputs : ClientSetInput(c[1], c[2])
    \/ \E data \in ClientDocs : ClientFromJSON(data)
    \/ WorkerOnMessage
    \/ WorkerTimer
    \/ ClientOnMessage

SpecWorker == InitWorker /\ [][NextWorker]_vars

\* WorkerOnMessage and ClientOnMessage as far as the queues go: a step takes
\* the head of a queue if and only if it is a step of the handler of that
\* queue, and one is possible if and only if the queue is not empty
Delivered == toWorker # <<>> /\ toWorker' = Tail(toWorker)
Received == toClient # <<>> /\ toClient' = Tail(toClient)

\* the event loops of the worker and of the page run the handler of every
\* message posted and the callback of every timer set
FairWorker ==
    SpecWorker /\ WF_toWorker(Delivered) /\ WF_nTimers(TimerFires) /\ WF_toClient(Received)

(***************************************************************************)
(* Properties of the reducer, checked under SpecReduce                     *)
(***************************************************************************)
\* C9: no bin of reduce(D, N, boundaries = {b}) has b strictly inside it
C9_BoundaryPreserved ==
    (rdDone /\ rdParams.boundaries # Undef) =>
        \A i \in 1..Len(rdOut) : \A k \in 1..Len(rdParams.boundaries) :
            rdOut[i].type = "bin" =>
                ~(RLt(rdOut[i].a, rdParams.boundaries[k]) /\ RLt(rdParams.boundaries[k], rdOut[i].b))

\* the Dist has atoms and bins only
tailFree(d) == \A i \in 1..Len(d) : d[i].type # "tail"

\* C10: for a Dist D of atoms and bins of total mass 1, Dist.mean of
\* reduce(D, N) equals Dist.mean of D within 1e-6
C10_MeanPreserved ==
    (rdDone /\ tailFree(rdOrig) /\ totalMass(rdOrig) = One) =>
        RSmall(RSub(mean(rdOut), mean(rdOrig)), 1000000)

\* the boundaries reduce works with
boundsOf(params) == IF params.boundaries = Undef THEN <<>> ELSE params.boundaries

\* the neighbours i, i+1 of d are blocked: one of them is a tail, or a boundary
\* lies between the end of the first and the start of the second
blocked(d, i, bounds) ==
    \/ d[i].type = "tail"
    \/ d[i + 1].type = "tail"
    \/ \E k \in 1..Len(bounds) :
          RLe(getEnd(d[i]), bounds[k]) /\ RLe(bounds[k], getStart(d[i + 1]))

callsFunction(input, name) ==
    LET T == tokenize(dropN(input, 1)).tokens IN
    \E i \in 1..Len(T) :
        T[i].type = "ID" /\ toUpperCase(T[i].value) = name /\ typeAt(T, i + 1) = "LPAREN"

\* C7: every cell that the evaluation of a raw input reads through
\* ctx.getValue, the cells of an expanded range included, is among the
\* dependencies extracted from that raw input
C7_DependenciesCoverReads ==
    evDone => evOut.s.reads \subseteq RangeOf(detectDependencies(evInput))

\* C8: the Dist returned for a formula that calls neither REDUCE nor CONFIG
\* has at most ctx.maxComponents components, 200 when that is not set
C8_SizeBound ==
    (evDone /\ evOut.err = <<>> /\ ~callsFunction(evInput, FnREDUCE)
            /\ ~callsFunction(evInput, FnCONFIG)) =>
        RLe(I(Len(cur(evOut, evOut.s))),
            IF evCtx.maxComponents # Undef THEN evCtx.maxComponents
            ELSE I(DefaultMaxComponents))

(***************************************************************************)
(* Properties of the graph, checked under Spec                             *)
(***************************************************************************)
\* the cells from which the cells of S are reached over dependents, S included
RECURSIVE dependentsClosure(_)
dependentsClosure(S) ==
    LET more == S \cup UNION {RangeOf(cells[c].dependents) \cap DOMAIN cells : c \in S \cap DOMAIN cells}
    IN IF more = S THEN S ELSE dependentsClosure(more)

\* c lies on a cycle of the dependency relation that passes through d
sameCycle(c, d) ==
    /\ c \in DOMAIN cells /\ d \in DOMAIN cells
    /\ c \in dependentsClosure(RangeOf(cells[d].dependents))
    /\ d \in dependentsClosure(RangeOf(cells[c].dependents))

onCycle(c) == sameCycle(c, c)

\* the cell holds what evaluating its input over the stored values gives
upToDate(c) ==
    LET r == cellResult(G, c) IN r.err = <<>> /\ cur(r, r.s) = cells[c].value

\* C1: when the recalculation of a set_input ends, no other input having come
\* while it ran, in a graph without cycles and without circular cells, every
\* cell of its closure is ok or error, and an ok cell holds the value of
\* its formula over the values stored now
C1_RecalculationCorrect ==
    (/\ done # <<>>
     /\ done.alone
     /\ \A c \in DOMAIN cells : ~onCycle(c) /\ cells[c].status # "circular") =>
        \A c \in done.closure :
            /\ c \in DOMAIN cells
            /\ cells[c].status \in {"ok", "error"}
            /\ cells[c].status = "ok" => upToDate(c)

\* C2: a cell is evaluated only when none of its dependencies that the same
\* recalculation marked evaluating still has status evaluating
C2_TopologicalOrder ==
    \A i \in 1..Len(evals) : evals[i].waiting = {}

\* C3: when the recalculation of set_input(id, ...) ends, every cell on a
\* cycle of the dependency relation through id is circular
C3_CycleCellsCircular ==
    done # <<>> =>
        \A c \in DOMAIN cells : sameCycle(c, done.id) => cells[c].status = "circular"

\* a recalculation has ended whose start cell is on a cycle with another cell
C3_Witness ==
    /\ done # <<>>
    /\ \E c \in DOMAIN cells : c # done.id /\ sameCycle(c, done.id)
    /\ \A c \in DOMAIN cells : sameCycle(c, done.id) => cells[c].status = "circular"

\* C4: when no recalculation is left suspended, every cell reached over
\* dependents from a changed cell that is on no cycle is ok or error, an ok
\* cell holding the value of its formula over the values stored now
C4_EventualConsistency ==
    tasks = <<>> =>
        \A c \in dependentsClosure(changed) \cap DOMAIN cells :
            ~onCycle(c) =>
                /\ cells[c].status \in {"ok", "error"}
                /\ cells[c].status = "ok" => upToDate(c)

\* C5: an evaluation that fails leaves the cell in status error with the
\* message recorded and with the value it stored before the evaluation
C5_FailureKeepsValue ==
    \A i \in 1..Len(evals) :
        evals[i].status = "error" =>
            evals[i].error # <<>> /\ evals[i].after = evals[i].before

\* all suspended recalculations of g resumed, until none is left
RECURSIVE settle(_)
settle(g) == IF g.tasks = <<>> THEN g ELSE settle(resumeRecalculate(g))

\* C6: with no recalculation suspended, loading toJSON of the graph into a new
\* graph gives, once its recalculations have ended, the same raw input for
\* every cell that has one and the same value for every cell
C6_RoundTrip ==
    tasks = <<>> =>
        LET h == settle(fromJSON(NewGraph, toJSON(G))) IN
        \A c \in DOMAIN cells :
            /\ cells[c].rawInput # <<>> =>
                  c \in DOMAIN h.cells /\ h.cells[c].rawInput = cells[c].rawInput
            /\ cells[c].value = IF c \in DOMAIN h.cells THEN h.cells[c].value ELSE Dist(<<>>)

\* C12: a cell is given the status circular only if it lies on a cycle of the
\* dependency relation: a cell that a step turns circular is on a cycle in the
\* graph that the step leaves
C12_CircularOnlyOnCycle ==
    [][\A c \in DOMAIN cells' :
          (/\ cells'[c].status = "circular"
           /\ (c \in DOMAIN cells => cells[c].status # "circular")) => onCycle(c)']_vars

\* C13: no operation but getDirtyAndClear takes an identifier out of the
\* dirty set; getDirtyAndClear returns exactly the cells of the Map whose
\* identifiers were in the set and leaves the set empty
C13_DirtyGrowsUntilDrained ==
    [][/\ drained' = <<>> => dirtyTrack \subseteq dirtyTrack'
       /\ drained' # <<>> =>
            /\ drained'[1].res = dirtyTrack \cap DOMAIN cells
            /\ dirtyTrack' = {}
            /\ cells' = cells]_vars

\* a drain has returned cells and has passed over the identifier of a cell
\* that a load had removed from the Map
C13_Witness ==
    /\ drained # <<>>
    /\ drained[1].res # {}
    /\ drained[1].res # drained[1].had
    /\ dirtyTrack = {}

\* C14: fromJSON of a document whose version is missing or is not 1 fails and
\* leaves the cells and the configuration of the graph as they were
C14_VersionRequired ==
    [][\A data \in {VersionTwoDoc, NoVersionDoc} :
          LoadJSON(data) => (cells' = cells /\ config' = config)]_vars

\* the steps that the recalculation started at k took in the last operation
notesOf(k) == SelectSeq(notes, LAMBDA e : e.task = k)
evaluations(steps) == Len(SelectSeq(steps, LAMBDA e : e.kind = "evaluate"))

atomsOnly(vals) ==
    \A c \in DOMAIN vals : \A i \in 1..Len(vals[c]) : vals[c][i].type = "atom"

\* C16: a result that the automatic reduction has reduced holds no merged
\* bin with 0 strictly inside it.  Over cells of atoms, for a formula that
\* calls neither a constructor of bins nor REDUCE, every bin of the result
\* is a bin that the automatic reduction has merged
C16_AutoReduceKeepsZero ==
    (/\ evDone /\ evOut.err = <<>>
     /\ atomsOnly(evCtx.vals)
     /\ \A f \in {FnREDUCE, FnUNIFORM, FnNORMAL, FnBIN} : ~callsFunction(evInput, f)) =>
        \A i \in 1..Len(cur(evOut, evOut.s)) :
            cur(evOut, evOut.s)[i].type = "bin" =>
                ~(RLt(cur(evOut, evOut.s)[i].a, Zero) /\ RLt(Zero, cur(evOut, evOut.s)[i].b))

\* the calls of BINOMIAL among the inputs: the n of the call and the local
\* limit that a CONFIG around it sets
BinomialCalls ==
    {[input |-> <<"=", "B", "I", "N", "O", "M", "I", "A", "L", "(", "3", ",", "0", ".", "5", ")">>,
      n |-> 3, local |-> Undef],
     [input |-> <<"=", "C", "O", "N", "F", "I", "G", "(", "2", ",", "B", "I", "N", "O", "M", "I", "A", "L", "(", "3", ",", "0", ".", "5", ")", ")">>,
      n |-> 3, local |-> I(2)],
     [input |-> <<"=", "B", "I", "N", "O", "M", "I", "A", "L", "(", "2", ",", "1", ")">>,
      n |-> 2, local |-> Undef]}

\* the effective limit of such a call: the local limit, else the limit of
\* the context, else 200
limitOf(b) ==
    IF b.local # Undef THEN b.local
    ELSE IF evCtx.maxComponents # Undef THEN evCtx.maxComponents
    ELSE I(DefaultMaxComponents)

\* C17: BINOMIAL(n, p) raises an error exactly when floor(n) is above the
\* effective limit, and returns the atoms 0, 1, ..., n when it is not
C17_BinomialLimit ==
    \A b \in BinomialCalls :
        (evDone /\ evInput = b.input) =>
            /\ evOut.err # <<>> <=> RLt(limitOf(b), I(b.n))
            /\ evOut.err = <<>> =>
                  [i \in 1..Len(evOut.val) |-> [type |-> evOut.val[i].type, x |-> evOut.val[i].x]]
                    = [i \in 1..(b.n + 1) |-> [type |-> "atom", x |-> I(i - 1)]]

\* the calls of CONFIG among the inputs: the limit L and the text of e
ConfigCalls ==
    {[input |-> <<"=", "C", "O", "N", "F", "I", "G", "(", "1", "0", ",", "A", "1", "+", "A", "2", "+", "A", "1", ")">>,
      limit |-> I(10), body |-> <<"A", "1", "+", "A", "2", "+", "A", "1">>],
     [input |-> <<"=", "C", "O", "N", "F", "I", "G", "(", "1", "0", ",", "N", "O", "R", "M", "A", "L", "(", "0", ",", "1", ")", ")">>,
      limit |-> I(10), body |-> <<"N", "O", "R", "M", "A", "L", "(", "0", ",", "1", ")">>],
     [input |-> <<"=", "C", "O", "N", "F", "I", "G", "(", "2", ",", "B", "I", "N", "O", "M", "I", "A", "L", "(", "3", ",", "0", ".", "5", ")", ")">>,
      limit |-> I(2), body |-> <<"B", "I", "N", "O", "M", "I", "A", "L", "(", "3", ",", "0", ".", "5", ")">>]}

\* C18: CONFIG(L, e) gives what e gives under the limit L, whatever the limit
\* of the context is, and when CONFIG has ended, by returning or by raising
\* an error, the local limit of the parser is what it was before (not set)
C18_ConfigScoped ==
    \A c \in ConfigCalls :
        (evDone /\ evInput = c.input) =>
            /\ evOut.s.lmc = Undef
            /\ evOut.err = <<>> =>
                  evOut.val = evaluate(c.body,
                                       [maxComponents |-> c.limit,
                                        share |-> [id \in DOMAIN evCtx.vals |-> {id}]],
                                       evCtx.vals, <<A1, A2, A3>>).val

\* the components of d with their masses multiplied by k
weighted(d, k) == [i \in 1..Len(d) |-> withMass(d[i], RMul(massOf(d[i]), k))]

\* the limit of the context
contextLimit ==
    IF evCtx.maxComponents # Undef THEN evCtx.maxComponents ELSE I(DefaultMaxComponents)

\* C19: MIX(p, A, B) with a scalar p is (1 - p) A + p B: the components of A
\* with their masses times 1 - p and those of B with their masses times p.
\* Stated for MIX(0.25, A1, A2) where the result is within the limit, so that
\* no reduction merges components
C19_MixWeights ==
    (/\ evDone
     /\ evInput = <<"=", "M", "I", "X", "(", "0", ".", "2", "5", ",", "A", "1", ",", "A", "2", ")">>
     /\ RLe(I(Len(evCtx.vals[A1]) + Len(evCtx.vals[A2])), contextLimit)) =>
        /\ evOut.err = <<>>
        /\ evOut.val = Dist(weighted(evCtx.vals[A1], R(3, 4)) \o weighted(evCtx.vals[A2], R(1, 4)))

\* the constructor calls among the inputs whose lower bound is not below
\* the upper bound
EmptyBinCalls ==
    {<<"=", "B", "I", "N", "(", "2", ",", "0", ")">>,
     <<"=", "U", "N", "I", "F", "O", "R", "M", "(", "1", ",", "1", ")">>}

\* C20: UNIFORM(min, max) and BIN(a, b) raise an error when the lower bound
\* is not strictly below the upper bound, and no formula returns a bin
\* with a >= b
C20_BinBoundsChecked ==
    evDone =>
        /\ evInput \in EmptyBinCalls => evOut.err # <<>>
        /\ evOut.err = <<>> =>
              \A i \in 1..Len(evOut.val) :
                  evOut.val[i].type = "bin" => RLt(evOut.val[i].a, evOut.val[i].b)

(***************************************************************************)
(* Properties of range expansion, checked under SpecRange                  *)
(***************************************************************************)
\* the column index and the row that an identifier names
columnOf(id) == colToIndex(parseCell(id)[1].col)
rowOf(id) == parseCell(id)[1].row

\* C21: expandRange(s, e) lists every cell of the rectangle spanned by s and
\* e exactly once, rows ascending and columns ascending within a row, and
\* expandRange(e, s) returns the same list
C21_RangeRowMajor ==
    rgDone =>
        LET out == rgOut.cells
            minC == Min2(columnOf(rgStart), columnOf(rgEnd))
            maxC == Max2(columnOf(rgStart), columnOf(rgEnd))
            minR == Min2(rowOf(rgStart), rowOf(rgEnd))
            maxR == Max2(rowOf(rgStart), rowOf(rgEnd))
        IN /\ rgOut.err = <<>>
           /\ Len(out) = (maxC - minC + 1) * (maxR - minR + 1)
           /\ \A i \in 1..Len(out) :
                 /\ columnOf(out[i]) \in minC..maxC
                 /\ rowOf(out[i]) \in minR..maxR
                 /\ out[i] = toUpperCase(out[i])
           /\ \A i \in 1..(Len(out) - 1) :
                 \/ rowOf(out[i]) < rowOf(out[i + 1])
                 \/ /\ rowOf(out[i]) = rowOf(out[i + 1])
                    /\ columnOf(out[i]) < columnOf(out[i + 1])
           /\ rgOut = expandRange(rgEnd, rgStart)

\* B3:A1 has been expanded to A1, B1, A2, B2, A3, B3
C21_Witness ==
    /\ rgDone
    /\ rgStart = <<"B", "3">>
    /\ rgEnd = <<"A", "1">>
    /\ rgOut.cells = <<A1, <<"B", "1">>, A2, <<"B", "2">>, A3, <<"B", "3">>>>

(***************************************************************************)
(* Properties of the graph under inputs alone, checked under SpecInputs    *)
(***************************************************************************)
\* C22: after any sequence of set_input calls, also while recalculations
\* are suspended, d is in c.dependencies if and only if c is in
\* d.dependents, and c.dependencies is the set of identifiers that
\* detectDependencies extracts from the raw input of c
C22_EdgesConsistent ==
    \A c \in DOMAIN cells :
        /\ RangeOf(cells[c].dependencies) \subseteq DOMAIN cells
        /\ RangeOf(cells[c].dependents) \subseteq DOMAIN cells
        /\ RangeOf(cells[c].dependencies) = RangeOf(detectDependencies(cells[c].rawInput))
        /\ \A d \in DOMAIN cells :
              d \in RangeOf(cells[c].dependencies) <=> c \in RangeOf(cells[d].dependents)

\* A1 read A2 and reads it no longer, and B5 reads A1 and B6, while a
\* recalculation is suspended
C22_Witness ==
    /\ tasks # <<>>
    /\ {A1, A2, <<"B", "5">>} \subseteq DOMAIN cells
    /\ cells[A1].rawInput = <<"5">>
    /\ cells[A2].rawInput = <<>>
    /\ cells[A2].dependents = <<>>
    /\ <<"B", "5">> \in RangeOf(cells[A1].dependents)
    /\ cells[<<"B", "5">>].dependencies = <<A1, <<"B", "6">>>>

\* the REPEAT_ADD calls among the inputs: the cell they repeat and the
\* Math.floor of their count
RepeatCalls ==
    {[input |-> <<"=", "R", "E", "P", "E", "A", "T", "_", "A", "D", "D", "(", "A", "1", ",", "2", ")">>,
      cell |-> A1, n |-> 2],
     [input |-> <<"=", "R", "E", "P", "E", "A", "T", "_", "A", "D", "D", "(", "A", "1", ",", "3", ")">>,
      cell |-> A1, n |-> 3],
     [input |-> <<"=", "R", "E", "P", "E", "A", "T", "_", "A", "D", "D", "(", "A", "2", ",", "5", ")">>,
      cell |-> A2, n |-> 5],
     [input |-> <<"=", "R", "E", "P", "E", "A", "T", "_", "A", "D", "D", "(", "A", "1", ",", "1", ")">>,
      cell |-> A1, n |-> 1],
     [input |-> <<"=", "R", "E", "P", "E", "A", "T", "_", "A", "D", "D", "(", "A", "1", ",", "0", ")">>,
      cell |-> A1, n |-> 0],
     [input |-> <<"=", "R", "E", "P", "E", "A", "T", "_", "A", "D", "D", "(", "A", "1", ",", "-", "2", ")">>,
      cell |-> A1, n |-> -2]}

\* the sum of n independent copies of d by n - 1 successive adds
RECURSIVE nFold(_, _)
nFold(d, n) == IF n <= 1 THEN d ELSE add(nFold(d, n - 1), d)

\* the two sequences hold the same components, each as often
sameBag(s, t) ==
    /\ Len(s) = Len(t)
    /\ \A c \in RangeOf(s) \cup RangeOf(t) :
          Cardinality({i \in 1..Len(s) : s[i] = c}) = Cardinality({i \in 1..Len(t) : t[i] = c})

\* C23: REPEAT_ADD(D, n) is the point mass at 0 for n <= 0 and D itself for
\* n = 1; for a D of atoms and n >= 2, when the n-fold sum is within the
\* limit (no reduction), it holds the atoms of the sum of n - 1 successive
\* adds of D, with the same masses
C23_RepeatAddIsSum ==
    evDone =>
        \A c \in RepeatCalls :
            evInput = c.input =>
                /\ evOut.err = <<>>
                /\ c.n <= 0 => evOut.val = PointZero
                /\ c.n = 1 => evOut.val = evCtx.vals[c.cell] /\ evOut.org = c.cell
                /\ (/\ c.n >= 2
                    /\ \A i \in 1..Len(evCtx.vals[c.cell]) : evCtx.vals[c.cell][i].type = "atom"
                    /\ RLe(I(Len(nFold(evCtx.vals[c.cell], c.n))), contextLimit))
                      => sameBag(evOut.val, nFold(evCtx.vals[c.cell], c.n))

\* REPEAT_ADD(A1, 3) has returned the eight atoms of A1 + A1 + A1 for
\* A1 = {1 (1/2), 3 (1/4)}
C23_Witness ==
    /\ evDone
    /\ evInput = <<"=", "R", "E", "P", "E", "A", "T", "_", "A", "D", "D", "(", "A", "1", ",", "3", ")">>
    /\ evCtx.vals[A1] = <<Atom(I(1), R(1, 2)), Atom(I(3), R(1, 4))>>
    /\ Len(evOut.val) = 8
    /\ evOut.val[1] = Atom(I(3), R(1, 8))
    /\ evOut.val[8] = Atom(I(9), R(1, 64))

\* the GEOM_SUM calls among the inputs with 0 < p < 1 (the first under a
\* limit of 20 components, which its 14 atoms never reach)
GeomCalls ==
    {[input |-> <<"=", "C", "O", "N", "F", "I", "G", "(", "2", "0", ",", "G", "E", "O", "M", "_", "S", "U", "M", "(", "A", "3", ",", "0", ".", "5", ")", ")">>,
      cell |-> A3, p |-> R(1, 2), limit |-> I(20)],
     [input |-> <<"=", "G", "E", "O", "M", "_", "S", "U", "M", "(", "A", "1", ",", "0", ".", "0", "1", "5", "6", "2", "5", ")">>,
      cell |-> A1, p |-> R(1, 64), limit |-> Undef]}

\* the first k at which the weights (1 - p) p^0, ..., (1 - p) p^k, which sum
\* to 1 - p^(k + 1), exceed 0.9999, the 2000th term at the latest
RECURSIVE lastTerm(_, _)
lastTerm(p, k) ==
    IF k >= MaxLoops - 1 \/ RLt(GeomCutoff, RSub(One, pow(p, k + 1))) THEN k
    ELSE lastTerm(p, k + 1)

\* the limit in force inside the call c
limitIn(c) == IF c.limit # Undef THEN c.limit ELSE contextLimit

\* the size-bounded safety check under a limit
safe(d, limit) ==
    IF RLt(limit, I(Len(d)))
    THEN reduce(d, ReduceParams(limit, Undef, Undef, Undef, Undef)).out
    ELSE d

\* the k-fold convolution of d
RECURSIVE kFold(_, _)
kFold(d, k) == IF k = 0 THEN PointZero ELSE add(kFold(d, k - 1), d)

\* the terms j..k, term i being the i-fold convolution with its masses times
\* (1 - p) p^i; conv is the j-fold convolution
RECURSIVE foldFrom(_, _, _, _, _)
foldFrom(conv, j, k, d, p) ==
    weighted(conv, RMul(RSub(One, p), pow(p, j)))
      \o (IF j >= k THEN <<>> ELSE foldFrom(add(conv, d), j + 1, k, d, p))

\* the terms 0..k, term j being the j-fold convolution with its masses
\* times (1 - p) p^j
foldTerms(d, p, k) == foldFrom(PointZero, 0, k, d, p)

\* the terms j..k, term i being the running convolution C(i) with its masses
\* times (1 - p) p^i: conv is C(j), and C(i + 1) is C(i) + d after the
\* safety check
RECURSIVE runningFrom(_, _, _, _, _, _)
runningFrom(conv, j, k, d, p, limit) ==
    weighted(conv, RMul(RSub(One, p), pow(p, j)))
      \o (IF j >= k THEN <<>>
          ELSE runningFrom(safe(add(conv, d), limit), j + 1, k, d, p, limit))

\* the terms 0..k of the running convolution, C(0) being the point mass at 0
runningTerms(d, p, k, limit) == runningFrom(PointZero, 0, k, d, p, limit)

\* what is common to both readings: p outside [0, 1) is an error, p = 0
\* gives the point mass at 0, GEOM_SUM(A3, 0.5) with A3 = 1 starts with the
\* atoms 0, 1, 2 of masses 0.5, 0.25, 0.125
geomEdges ==
    /\ evInput \in {<<"=", "G", "E", "O", "M", "_", "S", "U", "M", "(", "A", "1", ",", "1", ")">>,
                    <<"=", "G", "E", "O", "M", "_", "S", "U", "M", "(", "A", "1", ",", "-", "0", ".", "5", ")">>}
          => evOut.err = <<"Eval Error: ", "p must be in [0, 1)">>
    /\ evInput = <<"=", "G", "E", "O", "M", "_", "S", "U", "M", "(", "A", "1", ",", "0", ")">>
          => evOut.err = <<>> /\ evOut.val = PointZero
    /\ (/\ evInput = <<"=", "C", "O", "N", "F", "I", "G", "(", "2", "0", ",", "G", "E", "O", "M", "_", "S", "U", "M", "(", "A", "3", ",", "0", ".", "5", ")", ")">>
        /\ evCtx.vals[A3] = <<Atom(One, One)>>)
          => /\ evOut.err = <<>>
             /\ Len(evOut.val) >= 3
             /\ SubSeq(evOut.val, 1, 3)
                  = <<Atom(Zero, R(1, 2)), Atom(One, R(1, 4)), Atom(I(2), R(1, 8))>>

circularCells == {c \in DOMAIN cells : cells[c].status = "circular"}

\* the status alone: a cell that is circular stays circular under every
\* input, resumption and drain
circularStays ==
    [][\A c \in circularCells : c \in DOMAIN cells' /\ cells'[c].status = "circular"]_vars

\* C25: once a cell is circular no set_input, on it or on another cell,
\* changes its status or its value (the graph takes inputs only: no document
\* is loaded)
C25_CircularAbsorbing ==
    [][\A c \in circularCells :
          /\ c \in DOMAIN cells'
          /\ cells'[c].status = "circular"
          /\ cells'[c].value = cells[c].value]_vars

(***************************************************************************)
(* C26: inputs that arrive while a recalculation is suspended              *)
(***************************************************************************)
\* no cell lies on a cycle of the dependency relation
acyclicDeps == \A c \in DOMAIN cells : ~onCycle(c)

\* C26: in an execution in which the dependency relation is acyclic after
\* each set_input no cell ever gets the status circular, also when an input
\* changes edges while a recalculation is suspended at its await
C26_InterleavingSafe == []acyclicDeps => [](circularCells = {})

(***************************************************************************)
(* C27: what an evaluation does to the cells it reads                      *)
(***************************************************************************)
\* C27: evaluating a formula modifies the distribution stored in no cell:
\* when evaluate() has ended, by returning or by raising an error, every
\* cell holds the components it held before (so REDUCE(A1, 5) leaves the
\* masses of A1 as they were, also when they do not add up to 1)
C27_EvaluationReadOnly ==
    evDone => \A c \in DOMAIN evCtx.vals : evOut.s.vals[c] = evCtx.vals[c]

(***************************************************************************)
(* C28: the end of a recalculation                                         *)
(***************************************************************************)
\* the cells in the closure of a suspended recalculation
suspendedCells == UNION {RangeOf(tasks[i].dirtySet) : i \in DOMAIN tasks}

\* when a recalculation has ended, a cell of its closure that has the status
\* evaluating is in the closure of a recalculation that is still suspended,
\* and with no recalculation suspended no cell has the status evaluating
noneLeftEvaluating ==
    /\ done # <<>> =>
          \A c \in done.closure \cap DOMAIN cells :
              cells[c].status = "evaluating" => c \in suspendedCells
    /\ tasks = <<>> => \A c \in DOMAIN cells : cells[c].status # "evaluating"

\* C28: every recalculation ends (a suspended one is resumed until none is
\* suspended), and the recalculation that ends leaves no cell of its closure
\* evaluating: each has been evaluated, was circular already or is marked
\* circular; once all have ended no cell of the graph is evaluating
C28_RecalculationEnds ==
    /\ []noneLeftEvaluating
    /\ (tasks # <<>>) ~> (tasks = <<>>)

\* a recalculation that was suspended has been resumed and has ended, no
\* other being suspended, with a cell of its closure marked circular and
\* another one evaluated
C28_Witness ==
    /\ nTimers > 0
    /\ tasks = <<>>
    /\ done # <<>>
    /\ Cardinality(done.closure) > YieldEvery
    /\ \E c \in done.closure \cap DOMAIN cells : cells[c].status = "circular"
    /\ \E c \in done.closure \cap DOMAIN cells : cells[c].status = "ok"

(***************************************************************************)
(* C29: changes and the dirty set                                          *)
(***************************************************************************)
\* the cell of id as the step found it: a cell that is not in the Map is
\* what getCell would create
cellBefore(id) == IF id \in DOMAIN cells THEN cells[id] ELSE Cell(id)

\* C29: a cell whose raw input, status, value or error message a step of
\* set_input or of a recalculation has changed is in the dirty set at the
\* notification that ends the step (no drain happens inside a step; the
\* graph takes inputs only)
C29_NoUnreportedChange ==
    [][\A c \in DOMAIN cells' :
          (\/ cells'[c].rawInput # cellBefore(c).rawInput
           \/ cells'[c].status # cellBefore(c).status
           \/ cells'[c].value # cellBefore(c).value
           \/ cells'[c].error # cellBefore(c).error) => c \in dirtyTrack']_vars

(***************************************************************************)
(* Properties of the client and the worker, checked under FairWorker       *)
(***************************************************************************)
\* the cells the client may name
ClientIds == {c[1] : c \in ClientInputs}

\* C30: every setCellInput(id, val) of the client that changes the input of
\* the cell, and so marks it evaluating, is followed by an UPDATE_CELLS that
\* the client handles and that gives the cell a status other than evaluating
C30_MirrorSettles == \A id \in ClientIds : (id \in awaited) ~> (id \notin awaited)

====
